---- MODULE Spec2Model ----
(***************************************************************************)
(* Lead-qualification and scheduling-reconciliation pipeline.               *)
(*                                                                          *)
(* State: the leads table and its id sequence, the wall clock, the outbound *)
(* Slack sends, the response produced last, the request handlers that are   *)
(* in flight and the conversation of the chat.  A handler is a sequence of  *)
(* steps, one per awaited call: the database executes the statement (or     *)
(* Slack receives the post) in one step and the handler continues in the    *)
(* next, so the statements of concurrent requests interleave.  A step that  *)
(* only produces the response is joined to the step before it.              *)
(***************************************************************************)
EXTENDS Integers, Sequences, FiniteSets, Bags, TLC

VARIABLES leads, leads_id_seq, now, slack, last, reqs, input, chat

vars == <<leads, leads_id_seq, now, slack, last, reqs, input, chat>>

\* ---------------------------------------------------------------- bounds
\* rows in the leads table, request handlers in flight, chat turns
MaxLeads == 2
MaxReq == 2
MaxTurns == 2

\* values the id sequence may reach: one more than there can be rows, so that
\* a refused insert can use one up
MaxSeq == MaxLeads + 1

\* ------------------------------------------------- representation of values
\* a JavaScript undefined (an omitted argument or property)
Undef == "undefined"
\* a SQL NULL in a text column, and in a timestamp column
NullStr == "NULL"
NullTime == -1
\* parseInt of a non-numeric :id
NaN == -1

\* JavaScript (x || d) on string-valued arguments: undefined and "" are falsy
OrElse(x, d) == IF x = Undef \/ x = "" THEN d ELSE x

\* a column that was given no value takes NULL
Col(x) == IF x = Undef THEN NullStr ELSE x

\* String.prototype.toLowerCase on the addresses the model uses
toLowerCase(s) == IF s = "A@X.COM" THEN "a@x.com" ELSE s

\* new Date(start_time): ISO-8601 text to an instant
NewDate(s) ==
  CASE s = "2026-01-05T10:00:00Z" -> 1000
    [] s = "2026-01-06T11:30:00Z" -> 2000
    [] OTHER -> NullTime

\* ------------------------------------------------------------ configuration
SUCCESS_FEE_CENTS == 10000
CALENDLY_URL == "https://calendly.com/referralservice/business-upgrade"
CALENDLY_VENTURE_URL == "https://calendly.com/referralservice/venture-fit"

\* ------------------------------------------------------------- leads table
\* a high-intent row is given the fee when it is inserted
InsertRow_feeAtInsert(id, v, t) ==
  [ id |-> id,
    name |-> IF v.name = Undef THEN "Anonymous" ELSE v.name,
    company |-> IF v.company = Undef THEN "Unknown" ELSE v.company,
    email |-> IF v.email = Undef THEN "" ELSE v.email,
    painPoint |-> v.painPoint,
    companySize |-> Col(v.companySize),
    budgetConfirmed |-> (v.budgetConfirmed = "true"),
    leadType |-> IF v.leadType = Undef THEN "business_upgrade" ELSE v.leadType,
    isHighIntent |-> (v.isHighIntent = "true"),
    qualified |-> FALSE,
    scheduledCall |-> FALSE,
    successFeeCents |-> IF v.isHighIntent = "true" THEN SUCCESS_FEE_CENTS ELSE 0,
    successFeePolicy |-> NullStr,
    feeCollected |-> FALSE,
    feeCollectedAt |-> NullTime,
    feeCollectedBy |-> NullStr,
    utmSource |-> Col(v.utmSource),
    utmMedium |-> Col(v.utmMedium),
    utmCampaign |-> Col(v.utmCampaign),
    referrer |-> Col(v.referrer),
    calendlyEventUri |-> NullStr,
    calendlyInviteeUri |-> NullStr,
    scheduledAt |-> NullTime,
    createdAt |-> t ]

\* INSERT INTO leads: the row stored under the id drawn from the sequence,
\* column defaults, CURRENT_TIMESTAMP
InsertRow(id, v, t) ==
  [ id |-> id,
    name |-> IF v.name = Undef THEN "Anonymous" ELSE v.name,
    company |-> IF v.company = Undef THEN "Unknown" ELSE v.company,
    email |-> IF v.email = Undef THEN "" ELSE v.email,
    painPoint |-> v.painPoint,
    companySize |-> Col(v.companySize),
    budgetConfirmed |-> (v.budgetConfirmed = "true"),
    leadType |-> IF v.leadType = Undef THEN "business_upgrade" ELSE v.leadType,
    isHighIntent |-> (v.isHighIntent = "true"),
    qualified |-> FALSE,
    scheduledCall |-> FALSE,
    successFeeCents |-> 0,
    successFeePolicy |-> NullStr,
    feeCollected |-> FALSE,
    feeCollectedAt |-> NullTime,
    feeCollectedBy |-> NullStr,
    utmSource |-> Col(v.utmSource),
    utmMedium |-> Col(v.utmMedium),
    utmCampaign |-> Col(v.utmCampaign),
    referrer |-> Col(v.referrer),
    calendlyEventUri |-> NullStr,
    calendlyInviteeUri |-> NullStr,
    scheduledAt |-> NullTime,
    createdAt |-> t ]

\* id serial: nextval('leads_id_seq'), evaluated for every INSERT the database
\* executes, also one that a constraint then refuses
nextval(seq) == seq + 1

\* the table is a function from the ids of its rows
Rows(ls) == Cardinality(DOMAIN ls)

\* pain_point TEXT NOT NULL has no default: the insert throws without it
InsertThrows_never(v) == FALSE

InsertThrows(v) == v.painPoint = Undef

\* an InsertLead with every optional property omitted
EmptyInsert ==
  [ name |-> Undef, company |-> Undef, email |-> Undef, painPoint |-> Undef,
    companySize |-> Undef, budgetConfirmed |-> Undef, leadType |-> Undef,
    isHighIntent |-> Undef, utmSource |-> Undef, utmMedium |-> Undef,
    utmCampaign |-> Undef, referrer |-> Undef ]

\* the caller's flag wins over the computed one (spread order reversed)
createLeadValues_trustCaller(lead) ==
  IF lead.isHighIntent # Undef THEN lead
  ELSE [lead EXCEPT !.isHighIntent =
          IF lead.companySize = "51-200" \/ lead.companySize = "200+"
             \/ lead.budgetConfirmed = "true" THEN "true" ELSE "false"]

\* DatabaseStorage.createLead: the values handed to the insert
createLeadValues(lead) ==
  [lead EXCEPT !.isHighIntent =
     IF lead.companySize = "51-200" \/ lead.companySize = "200+"
        \/ lead.budgetConfirmed = "true" THEN "true" ELSE "false"]

\* DatabaseStorage.createLead: the table after an insert that is not refused,
\* seq being the value of the id sequence before it
createLead(ls, seq, lead, t) ==
  [i \in DOMAIN ls \cup {nextval(seq)} |->
     IF i = nextval(seq) THEN InsertRow(nextval(seq), createLeadValues(lead), t)
     ELSE ls[i]]

\* the oldest candidate is taken (ascending order)
getUnscheduledLeadByEmail_oldest(ls, email) ==
  LET cand == {i \in DOMAIN ls : ls[i].email = email /\ ~ls[i].scheduledCall}
  IN {i \in cand : \A j \in cand : ls[j].createdAt >= ls[i].createdAt}

\* the scheduledCall = false condition is missing from the query
getUnscheduledLeadByEmail_anyLead(ls, email) ==
  LET cand == {i \in DOMAIN ls : ls[i].email = email}
  IN {i \in cand : \A j \in cand : ls[j].createdAt <= ls[i].createdAt}

\* DatabaseStorage.getUnscheduledLeadByEmail: the ids the query may return
\* (ORDER BY created_at DESC LIMIT 1; equal timestamps leave the choice to
\* the database); the empty set when no row qualifies
getUnscheduledLeadByEmail(ls, email) ==
  LET cand == {i \in DOMAIN ls : ls[i].email = email /\ ~ls[i].scheduledCall}
  IN {i \in cand : \A j \in cand : ls[j].createdAt <= ls[i].createdAt}

\* the lookup never finds a processed event
getLeadByCalendlyUri_blind(ls, uri) == {}

\* the lookup compares the event reference column instead
getLeadByCalendlyUri_eventColumn(ls, uri) ==
  {i \in DOMAIN ls : ls[i].calendlyEventUri = uri}

\* DatabaseStorage.getLeadByCalendlyUri: the ids of the rows holding uri
getLeadByCalendlyUri(ls, uri) ==
  {i \in DOMAIN ls : ls[i].calendlyInviteeUri = uri}

\* the fee is assigned whatever the intent
markLeadAsScheduled_alwaysFee(ls, leadId, data, isHighIntent) ==
  [ls EXCEPT ![leadId] =
     [@ EXCEPT !.scheduledCall = TRUE,
               !.calendlyEventUri = data.calendlyEventUri,
               !.calendlyInviteeUri = data.calendlyInviteeUri,
               !.scheduledAt = data.scheduledAt,
               !.successFeeCents = SUCCESS_FEE_CENTS]]

\* the two Calendly references are stored in each other's column
markLeadAsScheduled_swapped(ls, leadId, data, isHighIntent) ==
  [ls EXCEPT ![leadId] =
     [@ EXCEPT !.scheduledCall = TRUE,
               !.calendlyEventUri = data.calendlyInviteeUri,
               !.calendlyInviteeUri = data.calendlyEventUri,
               !.scheduledAt = data.scheduledAt,
               !.successFeeCents = IF isHighIntent THEN SUCCESS_FEE_CENTS ELSE @]]

\* the update also stamps the creation time with the booking time
markLeadAsScheduled_restamps(ls, leadId, data, isHighIntent) ==
  [ls EXCEPT ![leadId] =
     [@ EXCEPT !.scheduledCall = TRUE,
               !.calendlyEventUri = data.calendlyEventUri,
               !.calendlyInviteeUri = data.calendlyInviteeUri,
               !.scheduledAt = data.scheduledAt,
               !.createdAt = data.scheduledAt,
               !.successFeeCents = IF isHighIntent THEN SUCCESS_FEE_CENTS ELSE @]]

\* DatabaseStorage.markLeadAsScheduled: UPDATE leads SET ... WHERE id = leadId
markLeadAsScheduled(ls, leadId, data, isHighIntent) ==
  [ls EXCEPT ![leadId] =
     [@ EXCEPT !.scheduledCall = TRUE,
               !.calendlyEventUri = data.calendlyEventUri,
               !.calendlyInviteeUri = data.calendlyInviteeUri,
               !.scheduledAt = data.scheduledAt,
               !.successFeeCents = IF isHighIntent THEN SUCCESS_FEE_CENTS ELSE @]]

\* ------------------------------------------------------------ request inputs
\* arguments of a qualify_and_schedule tool call, every property omitted
NoArgs ==
  [ lead_name |-> Undef, lead_email |-> Undef, company_name |-> Undef,
    company_size |-> Undef, primary_pain_point |-> Undef,
    budget_confirmed |-> Undef, intent_type |-> Undef, lead_type |-> Undef,
    utm_source |-> Undef, utm_medium |-> Undef, utm_campaign |-> Undef,
    referrer |-> Undef ]

QSArgs ==
  { [NoArgs EXCEPT !.primary_pain_point = "lead triage", !.lead_email = "a@x.com",
                   !.company_size = "200+", !.intent_type = "business_upgrade",
                   !.utm_source = "linkedin", !.referrer = "https://ref.example"],
    [NoArgs EXCEPT !.lead_email = "b@x.com", !.company_size = "200+",
                   !.lead_type = "venture_studio"] }

\* arguments of a qualify_lead tool call
QLArgs ==
  { [name |-> "Bob", company |-> "Acme", email |-> "b@x.com", painPoint |-> "support"],
    [name |-> "Ann", company |-> Undef, email |-> "a@x.com", painPoint |-> Undef] }

\* Calendly webhook bodies: event type and the payload properties the handler reads
StartTimeOf(uri) ==
  IF uri = "inv1" THEN "2026-01-05T10:00:00Z" ELSE "2026-01-06T11:30:00Z"

WebhookEvents ==
  { [event |-> "invitee.created", email |-> "a@x.com", uri |-> "inv1",
     scheduledEvent |-> "evt1", start_time |-> StartTimeOf("inv1")],
    [event |-> "invitee.created", email |-> "A@X.COM", uri |-> "inv2",
     scheduledEvent |-> "evt2", start_time |-> StartTimeOf("inv2")],
    [event |-> "invitee.created", email |-> "b@x.com", uri |-> "inv2",
     scheduledEvent |-> "evt2", start_time |-> StartTimeOf("inv2")],
    [event |-> "invitee.created", email |-> Undef, uri |-> "inv1",
     scheduledEvent |-> "evt1", start_time |-> StartTimeOf("inv1")],
    [event |-> "invitee.canceled", email |-> "a@x.com", uri |-> "inv1",
     scheduledEvent |-> "evt1", start_time |-> StartTimeOf("inv1")] }

NoEvent ==
  [event |-> "", email |-> Undef, uri |-> "", scheduledEvent |-> "", start_time |-> ""]

\* authenticated operators that passed the admin middleware
Operators == {"user_admin1", "user_admin2"}

\* parsed :id of an admin request: an id the sequence may have given, or NaN
LeadIdParams == (1 .. MaxSeq) \cup {NaN}


\* ------------------------------------------------------------------- state
NoLead == [id |-> 0]

\* no tool call
NoCall == [name |-> "", args |-> NoArgs]

\* what a step sends back: the HTTP status and the message of the body, or,
\* with status 0, the string handleFunctionCall returns
Response(status, body) == [status |-> status, body |-> body]

\* last after a step that sends nothing back
NoResponse == Response(0, "")

\* a request handler in flight: where it stands (pc), the request it serves
\* (op and ev, call, or leadId and adminId) and its local variables: lead is,
\* of the row the statement awaited last returned or stored, the columns the
\* handler goes on to read (NoLead when there is none); failed tells that
\* the statement awaited was refused; the others are the locals of a chat
\* turn (sent: the messages of each completion it requested; trace: the
\* storage writes, completions and tool calls it made, in order)
NewReq ==
  [pc |-> "", op |-> "", ev |-> NoEvent, call |-> NoCall,
   leadId |-> 0, adminId |-> "", lead |-> NoLead, failed |-> FALSE,
   history |-> <<>>, responseText |-> "", toolCalls |-> <<>>,
   functionCalls |-> <<>>, sent |-> <<>>, trace |-> <<>>]

\* reqs is the bag of the handlers in flight; a request is accepted while
\* fewer than MaxReq are
Handlers == BagToSet(reqs)
Accepting == BagCardinality(reqs) < MaxReq

\* a request arrives and its handler h stays in flight; handler h goes on as
\* h2; handler h ends
Start(h) == reqs' = reqs (+) SetToBag({h})
Move(h, h2) == reqs' = (reqs (-) SetToBag({h})) (+) SetToBag({h2})
End(h) == reqs' = reqs (-) SetToBag({h})

\* the conversation of the chat: whether its row exists, its messages in
\* the order of created_at, the number of chat requests accepted, and the
\* body of the chat request received last
Conversation(exists, log, turns, content) ==
  [exists |-> exists, log |-> log, turns |-> turns, content |-> content]

NoContent == [type |-> "undefined", len |-> 0]

\* the empty table: a function with no id in its domain
NoRows == [i \in {} |-> NoLead]

InitCommon ==
  /\ chat = Conversation(TRUE, <<>>, 0, NoContent)
  /\ leads = NoRows
  /\ leads_id_seq = 0
  /\ now = 0
  /\ slack = [lead |-> 0, booked |-> 0]
  /\ last = NoResponse
  /\ reqs = EmptyBag

Init == InitCommon /\ input = EmptyInsert

\* time that passes between two inserts: none (equal CURRENT_TIMESTAMPs) or some
ClockSteps == {0, 1}

\* ------------------------------------------------------------ tool dispatch
\* the legacy lead_type is consulted before intent_type
IntentTypeOf_legacyFirst(args) ==
  OrElse(args.lead_type, OrElse(args.intent_type, "business_upgrade"))

\* handleFunctionCall, case "qualify_and_schedule": link selection
IntentTypeOf(args) == OrElse(args.intent_type, OrElse(args.lead_type, "business_upgrade"))

CalendlyLinkOf(args) ==
  IF IntentTypeOf(args) = "venture_studio" THEN CALENDLY_VENTURE_URL ELSE CALENDLY_URL

\* handleFunctionCall, case "qualify_and_schedule": the InsertLead it builds
QSInsert(args) ==
  [EmptyInsert EXCEPT
     !.name = OrElse(args.lead_name, "Anonymous"),
     !.company = OrElse(args.company_name, "Unknown"),
     !.email = OrElse(args.lead_email, ""),
     !.painPoint = args.primary_pain_point,
     !.companySize = args.company_size,
     !.budgetConfirmed = IF args.budget_confirmed = "true" THEN "true" ELSE "false",
     !.leadType = IntentTypeOf(args),
     !.utmSource = args.utm_source,
     !.utmMedium = args.utm_medium,
     !.utmCampaign = args.utm_campaign,
     !.referrer = args.referrer]

\* handleFunctionCall, case "qualify_lead": the InsertLead it builds
QLInsert(args) ==
  [EmptyInsert EXCEPT
     !.name = OrElse(args.name, "Anonymous"),
     !.company = OrElse(args.company, "Unknown"),
     !.email = OrElse(args.email, ""),
     !.painPoint = args.painPoint]

\* the string of the default case
FALLBACK == "I'm not sure how to handle that request."

\* the default case records the request as a lead
handleFunctionCall_recordsUnknown(name, args, ls, seq, t, storage) ==
  CASE name = "qualify_and_schedule" ->
         IF storage = "down"
         THEN [result |-> "soft:" \o CalendlyLinkOf(args), leads |-> ls, seq |-> seq,
               stored |-> FALSE, notified |-> FALSE]
         ELSE IF InsertThrows(createLeadValues(QSInsert(args)))
         THEN [result |-> "soft:" \o CalendlyLinkOf(args), leads |-> ls,
               seq |-> nextval(seq), stored |-> FALSE, notified |-> FALSE]
         ELSE IF storage = "lost"
         THEN [result |-> "soft:" \o CalendlyLinkOf(args),
               leads |-> createLead(ls, seq, QSInsert(args), t), seq |-> nextval(seq),
               stored |-> TRUE, notified |-> FALSE]
         ELSE [result |-> CalendlyLinkOf(args),
               leads |-> createLead(ls, seq, QSInsert(args), t), seq |-> nextval(seq),
               stored |-> TRUE, notified |-> TRUE]
    [] name = "qualify_lead" ->
         IF storage = "down"
         THEN [result |-> "soft-noted", leads |-> ls, seq |-> seq,
               stored |-> FALSE, notified |-> FALSE]
         ELSE IF InsertThrows(createLeadValues(QLInsert(args)))
         THEN [result |-> "soft-noted", leads |-> ls, seq |-> nextval(seq),
               stored |-> FALSE, notified |-> FALSE]
         ELSE IF storage = "lost"
         THEN [result |-> "soft-noted",
               leads |-> createLead(ls, seq, QLInsert(args), t), seq |-> nextval(seq),
               stored |-> TRUE, notified |-> FALSE]
         ELSE [result |-> "noted",
               leads |-> createLead(ls, seq, QLInsert(args), t), seq |-> nextval(seq),
               stored |-> TRUE, notified |-> FALSE]
    [] OTHER ->
         [result |-> FALLBACK,
          leads |-> createLead(ls, seq, [EmptyInsert EXCEPT !.painPoint = name], t),
          seq |-> nextval(seq), stored |-> TRUE, notified |-> FALSE]

\* the notification is started before the insert, which may throw
handleFunctionCall_notifiesFirst(name, args, ls, seq, t, storage) ==
  CASE name = "qualify_and_schedule" ->
         IF storage = "down"
         THEN [result |-> "soft:" \o CalendlyLinkOf(args), leads |-> ls, seq |-> seq,
               stored |-> FALSE, notified |-> TRUE]
         ELSE IF InsertThrows(createLeadValues(QSInsert(args)))
         THEN [result |-> "soft:" \o CalendlyLinkOf(args), leads |-> ls,
               seq |-> nextval(seq), stored |-> FALSE, notified |-> TRUE]
         ELSE IF storage = "lost"
         THEN [result |-> "soft:" \o CalendlyLinkOf(args),
               leads |-> createLead(ls, seq, QSInsert(args), t), seq |-> nextval(seq),
               stored |-> TRUE, notified |-> TRUE]
         ELSE [result |-> CalendlyLinkOf(args),
               leads |-> createLead(ls, seq, QSInsert(args), t), seq |-> nextval(seq),
               stored |-> TRUE, notified |-> TRUE]
    [] name = "qualify_lead" ->
         IF storage = "down"
         THEN [result |-> "soft-noted", leads |-> ls, seq |-> seq,
               stored |-> FALSE, notified |-> FALSE]
         ELSE IF InsertThrows(createLeadValues(QLInsert(args)))
         THEN [result |-> "soft-noted", leads |-> ls, seq |-> nextval(seq),
               stored |-> FALSE, notified |-> FALSE]
         ELSE IF storage = "lost"
         THEN [result |-> "soft-noted",
               leads |-> createLead(ls, seq, QLInsert(args), t), seq |-> nextval(seq),
               stored |-> TRUE, notified |-> FALSE]
         ELSE [result |-> "noted",
               leads |-> createLead(ls, seq, QLInsert(args), t), seq |-> nextval(seq),
               stored |-> TRUE, notified |-> FALSE]
    [] OTHER ->
         [result |-> FALLBACK, leads |-> ls, seq |-> seq,
          stored |-> FALSE, notified |-> FALSE]

\* handleFunctionCall(name, args) whose insert the database executes at time
\* t with the id sequence at seq.  storage is how storage.createLead ends:
\* "down", it rejects before the statement is executed; "up", the statement
\* is executed and answered (refused, with its id drawn, when a NOT NULL
\* column is given no value); "lost", the statement is executed and the
\* connection breaks before its answer arrives, so that createLead rejects
\* although the row is stored.  The value is the string returned (the
\* scheduling link stands for the text around it, "soft:" marks the catch
\* branch), the table and the sequence after the insert, whether a row was
\* stored and whether the lead notification is started.
handleFunctionCall(name, args, ls, seq, t, storage) ==
  CASE name = "qualify_and_schedule" ->
         IF storage = "down"
         THEN [result |-> "soft:" \o CalendlyLinkOf(args), leads |-> ls, seq |-> seq,
               stored |-> FALSE, notified |-> FALSE]
         ELSE IF InsertThrows(createLeadValues(QSInsert(args)))
         THEN [result |-> "soft:" \o CalendlyLinkOf(args), leads |-> ls,
               seq |-> nextval(seq), stored |-> FALSE, notified |-> FALSE]
         ELSE IF storage = "lost"
         THEN [result |-> "soft:" \o CalendlyLinkOf(args),
               leads |-> createLead(ls, seq, QSInsert(args), t), seq |-> nextval(seq),
               stored |-> TRUE, notified |-> FALSE]
         ELSE [result |-> CalendlyLinkOf(args),
               leads |-> createLead(ls, seq, QSInsert(args), t), seq |-> nextval(seq),
               stored |-> TRUE, notified |-> TRUE]
    [] name = "qualify_lead" ->
         IF storage = "down"
         THEN [result |-> "soft-noted", leads |-> ls, seq |-> seq,
               stored |-> FALSE, notified |-> FALSE]
         ELSE IF InsertThrows(createLeadValues(QLInsert(args)))
         THEN [result |-> "soft-noted", leads |-> ls, seq |-> nextval(seq),
               stored |-> FALSE, notified |-> FALSE]
         ELSE IF storage = "lost"
         THEN [result |-> "soft-noted",
               leads |-> createLead(ls, seq, QLInsert(args), t), seq |-> nextval(seq),
               stored |-> TRUE, notified |-> FALSE]
         ELSE [result |-> "noted",
               leads |-> createLead(ls, seq, QLInsert(args), t), seq |-> nextval(seq),
               stored |-> TRUE, notified |-> FALSE]
    [] OTHER ->
         [result |-> FALLBACK, leads |-> ls, seq |-> seq,
          stored |-> FALSE, notified |-> FALSE]

\* the names handleFunctionCall has a case for
KnownTools == {"qualify_and_schedule", "qualify_lead"}

\* the table and the sequence stay within the bounds
WithinBounds(h) == Rows(h.leads) <= MaxLeads /\ h.seq <= MaxSeq

\* how createLead ends for a handler whose insert stored lead (NoLead: no
\* row) when the answer of the statement is lost or not
StorageOf(lead, lost) ==
  IF lead = NoLead THEN "down" ELSE IF lost THEN "lost" ELSE "up"

\* a tool call arrives and handleFunctionCall runs up to its await: the
\* database executes the insert of storage.createLead, or the storage is
\* unreachable (dbFails); a name without a case is answered at once
ToolInsert(name, args, dbFails) ==
  /\ Accepting
  /\ \E dt \in ClockSteps :
       LET h == handleFunctionCall(name, args, leads, leads_id_seq, now + dt,
                                   IF dbFails THEN "down" ELSE "up")
       IN /\ WithinBounds(h)
          /\ leads' = h.leads
          /\ leads_id_seq' = h.seq
          /\ now' = IF h.stored THEN now + dt ELSE now
          /\ IF name \in KnownTools
             THEN /\ Start([NewReq EXCEPT !.pc = "inserted", !.op = name,
                              !.call = [name |-> name, args |-> args],
                              !.lead = IF h.stored THEN [id |-> h.seq] ELSE NoLead])
                  /\ last' = NoResponse
             ELSE /\ last' = Response(0, h.result)
                  /\ UNCHANGED reqs
  /\ UNCHANGED <<slack, input, chat>>

\* the await of handler h ends and handleFunctionCall continues: createLead
\* returns the row, sendSlackNotification is started (not awaited) after a
\* qualify_and_schedule lead and the string is returned; or createLead
\* rejects (nothing was stored, or the answer of the insert is lost) and the
\* catch returns its string
ToolReturn(h, lost) ==
  /\ h.pc = "inserted"
  /\ LET r == handleFunctionCall(h.call.name, h.call.args, leads, leads_id_seq, now,
                                 StorageOf(h.lead, lost))
     IN /\ slack' = IF r.notified THEN [slack EXCEPT !.lead = @ + 1] ELSE slack
        /\ last' = Response(0, r.result)
  /\ End(h)
  /\ UNCHANGED <<leads, leads_id_seq, now, input, chat>>

\* ------------------------------------------------------- webhook handler
\* the event email is compared as sent
EmailOf_asSent(ev) == ev.email

\* const email = payload.email?.toLowerCase()
EmailOf(ev) == IF ev.email = Undef THEN Undef ELSE toLowerCase(ev.email)

\* the calendlyData argument the handler builds from the payload
CalendlyData(ev) ==
  [calendlyEventUri |-> ev.scheduledEvent,
   calendlyInviteeUri |-> ev.uri,
   scheduledAt |-> NewDate(ev.start_time)]

\* POST /api/webhooks/calendly with a body that passed signature verification
\* arrives: another event is acknowledged and a booking without email refused
\* at once; otherwise the handler runs up to its first await and the database
\* executes the idempotency lookup
WhLookup(ev) ==
  /\ Accepting
  /\ IF ev.event # "invitee.created"
     THEN /\ last' = Response(200, "received")
          /\ UNCHANGED reqs
     ELSE IF EmailOf(ev) = Undef \/ EmailOf(ev) = ""
     THEN /\ last' = Response(400, "Missing email in payload")
          /\ UNCHANGED reqs
     ELSE /\ IF getLeadByCalendlyUri(leads, ev.uri) = {}
             THEN Start([NewReq EXCEPT !.pc = "lookedUp", !.op = "webhook", !.ev = ev])
             ELSE \E i \in getLeadByCalendlyUri(leads, ev.uri) :
                    Start([NewReq EXCEPT !.pc = "lookedUp", !.op = "webhook", !.ev = ev,
                                         !.lead = [id |-> i]])
          /\ last' = NoResponse
  /\ UNCHANGED <<leads, leads_id_seq, now, slack, input, chat>>

\* the lookup of handler h is answered: an existing booking is acknowledged as
\* processed; otherwise the database executes getUnscheduledLeadByEmail
WhMatch(h) ==
  /\ h.op = "webhook"
  /\ h.pc = "lookedUp"
  /\ IF h.lead # NoLead
     THEN /\ last' = Response(200, "Event already processed")
          /\ End(h)
     ELSE /\ IF getUnscheduledLeadByEmail(leads, EmailOf(h.ev)) = {}
             THEN Move(h, [h EXCEPT !.pc = "matched"])
             ELSE \E m \in getUnscheduledLeadByEmail(leads, EmailOf(h.ev)) :
                    Move(h, [h EXCEPT !.pc = "matched",
                                      !.lead = [id |-> m,
                                                isHighIntent |-> leads[m].isHighIntent]])
          /\ last' = NoResponse
  /\ UNCHANGED <<leads, leads_id_seq, now, slack, input, chat>>

\* the match query is answered: a cold booking is acknowledged; otherwise the
\* database executes markLeadAsScheduled for the lead that was read
WhUpdate(h) ==
  /\ h.op = "webhook"
  /\ h.pc = "matched"
  /\ IF h.lead = NoLead
     THEN /\ last' = Response(200, "received")
          /\ End(h)
          /\ UNCHANGED leads
     ELSE /\ leads' = markLeadAsScheduled(leads, h.lead.id, CalendlyData(h.ev),
                                          h.lead.isHighIntent)
          /\ Move(h, [h EXCEPT !.pc = "updated"])
          /\ last' = NoResponse
  /\ UNCHANGED <<leads_id_seq, now, slack, input, chat>>

\* the update is answered and sendBookedSlackNotification posts to Slack; the
\* handler awaits the call
WhSend(h) ==
  /\ h.op = "webhook"
  /\ h.pc = "updated"
  /\ slack' = [slack EXCEPT !.booked = @ + 1]
  /\ Move(h, [h EXCEPT !.pc = "awaitSlack"])
  /\ last' = NoResponse
  /\ UNCHANGED <<leads, leads_id_seq, now, input, chat>>

\* the post settles (answered, or failed and caught) and the webhook is
\* acknowledged; a post that never settles leaves the handler where it is
WhNotify(h) ==
  /\ h.op = "webhook"
  /\ h.pc = "awaitSlack"
  /\ last' = Response(200, "received")
  /\ End(h)
  /\ UNCHANGED <<leads, leads_id_seq, now, slack, input, chat>>

\* an awaited storage call of handler h throws (the lookup, the match query,
\* or the update: refused, or applied with its answer lost) and the catch
\* answers 500
WhFail(h) ==
  /\ h.op = "webhook"
  /\ h.pc \in {"lookedUp", "matched", "updated"}
  /\ last' = Response(500, "Webhook processing failed")
  /\ End(h)
  /\ UNCHANGED <<leads, leads_id_seq, now, slack, input, chat>>

\* ---------------------------------------------------------- admin routes
\* the eligibility check on the assigned fee is missing
collectFeeChecks_noFeeCheck(existingLead) ==
  IF existingLead = NoLead THEN [status |-> 404, body |-> "Lead not found"]
  ELSE IF existingLead.feeCollected THEN [status |-> 400, body |-> "Fee already collected"]
  ELSE [status |-> 200, body |-> ""]

\* POST /leads/:id/collect-fee, the checks on the row the select returned
\* (NoLead when it returned none): the refusal, or 200 to go on to the update
collectFeeChecks(existingLead) ==
  IF existingLead = NoLead THEN [status |-> 404, body |-> "Lead not found"]
  ELSE IF existingLead.feeCollected THEN [status |-> 400, body |-> "Fee already collected"]
  ELSE IF existingLead.successFeeCents = 0 THEN [status |-> 400, body |-> "No Success Fee assigned to this lead"]
  ELSE [status |-> 200, body |-> ""]

\* the collector is not recorded
collectFeeUpdate_noCollector(ls, leadId, adminId, t) ==
  [i \in DOMAIN ls |->
     IF i = leadId
     THEN [ls[i] EXCEPT !.feeCollected = TRUE, !.feeCollectedAt = t]
     ELSE ls[i]]

\* POST /leads/:id/collect-fee, the update: the table after
\* UPDATE leads SET fee_collected, fee_collected_at, fee_collected_by WHERE id
collectFeeUpdate(ls, leadId, adminId, t) ==
  [i \in DOMAIN ls |->
     IF i = leadId
     THEN [ls[i] EXCEPT !.feeCollected = TRUE, !.feeCollectedAt = t,
                        !.feeCollectedBy = adminId]
     ELSE ls[i]]

\* POST /leads/:id/uncollect-fee, the checks on the row the select returned
uncollectFeeChecks(existingLead) ==
  IF existingLead = NoLead THEN [status |-> 404, body |-> "Lead not found"]
  ELSE IF ~existingLead.feeCollected THEN [status |-> 400, body |-> "Fee not yet collected"]
  ELSE [status |-> 200, body |-> ""]

\* the reversal also resets the assigned fee
uncollectFeeUpdate_clearsFee(ls, leadId) ==
  [i \in DOMAIN ls |->
     IF i = leadId
     THEN [ls[i] EXCEPT !.feeCollected = FALSE, !.feeCollectedAt = NullTime,
                        !.feeCollectedBy = NullStr, !.successFeeCents = 0]
     ELSE ls[i]]

\* the reversal also takes back the scheduling flag
uncollectFeeUpdate_unschedules(ls, leadId) ==
  [i \in DOMAIN ls |->
     IF i = leadId
     THEN [ls[i] EXCEPT !.feeCollected = FALSE, !.feeCollectedAt = NullTime,
                        !.feeCollectedBy = NullStr, !.scheduledCall = FALSE]
     ELSE ls[i]]

\* the reversal keeps the collector
uncollectFeeUpdate_keepsCollector(ls, leadId) ==
  [i \in DOMAIN ls |->
     IF i = leadId
     THEN [ls[i] EXCEPT !.feeCollected = FALSE, !.feeCollectedAt = NullTime]
     ELSE ls[i]]

\* POST /leads/:id/uncollect-fee, the update: the table after
\* UPDATE leads SET fee_collected = false, the other two NULL WHERE id
uncollectFeeUpdate(ls, leadId) ==
  [i \in DOMAIN ls |->
     IF i = leadId
     THEN [ls[i] EXCEPT !.feeCollected = FALSE, !.feeCollectedAt = NullTime,
                        !.feeCollectedBy = NullStr]
     ELSE ls[i]]

\* SELECT * FROM leads WHERE id = leadId: of the row, the columns the fee
\* handlers read; NoLead when there is no such row
SelectLead(ls, leadId) ==
  IF leadId \in DOMAIN ls
  THEN [id |-> leadId, feeCollected |-> ls[leadId].feeCollected,
        successFeeCents |-> ls[leadId].successFeeCents]
  ELSE NoLead

\* a collect-fee request of operator adminId that passed the middleware
\* arrives: an id that is not a number is refused at once; otherwise the
\* database executes the select
FeeSelect(leadId, adminId) ==
  /\ Accepting
  /\ IF leadId = NaN
     THEN /\ last' = Response(400, "Invalid lead ID")
          /\ UNCHANGED reqs
     ELSE /\ Start([NewReq EXCEPT !.pc = "selected", !.op = "collect-fee",
                                  !.leadId = leadId, !.adminId = adminId,
                                  !.lead = SelectLead(leads, leadId)])
          /\ last' = NoResponse
  /\ UNCHANGED <<leads, leads_id_seq, now, slack, input, chat>>

\* the select of handler h is answered: the request is refused on the row it
\* returned, or the database executes the update
FeeUpdate(h) ==
  /\ h.op = "collect-fee"
  /\ h.pc = "selected"
  /\ IF collectFeeChecks(h.lead).status # 200
     THEN /\ last' = Response(collectFeeChecks(h.lead).status,
                              collectFeeChecks(h.lead).body)
          /\ End(h)
          /\ UNCHANGED leads
     ELSE /\ leads' = collectFeeUpdate(leads, h.leadId, h.adminId, now)
          /\ Move(h, [h EXCEPT !.pc = "updated"])
          /\ last' = NoResponse
  /\ UNCHANGED <<leads_id_seq, now, slack, input, chat>>

\* an uncollect-fee request that passed the middleware arrives
UnSelect(leadId, adminId) ==
  /\ Accepting
  /\ IF leadId = NaN
     THEN /\ last' = Response(400, "Invalid lead ID")
          /\ UNCHANGED reqs
     ELSE /\ Start([NewReq EXCEPT !.pc = "selected", !.op = "uncollect-fee",
                                  !.leadId = leadId, !.adminId = adminId,
                                  !.lead = SelectLead(leads, leadId)])
          /\ last' = NoResponse
  /\ UNCHANGED <<leads, leads_id_seq, now, slack, input, chat>>

\* the select of handler h is answered: the request is refused on the row it
\* returned, or the database executes the update
UnUpdate(h) ==
  /\ h.op = "uncollect-fee"
  /\ h.pc = "selected"
  /\ IF uncollectFeeChecks(h.lead).status # 200
     THEN /\ last' = Response(uncollectFeeChecks(h.lead).status,
                              uncollectFeeChecks(h.lead).body)
          /\ End(h)
          /\ UNCHANGED leads
     ELSE /\ leads' = uncollectFeeUpdate(leads, h.leadId)
          /\ Move(h, [h EXCEPT !.pc = "updated"])
          /\ last' = NoResponse
  /\ UNCHANGED <<leads_id_seq, now, slack, input, chat>>

\* the update of a collect-fee or uncollect-fee request is answered and the
\* request is answered 200
FeeRespond(h) ==
  /\ h.op \in {"collect-fee", "uncollect-fee"}
  /\ h.pc = "updated"
  /\ last' = Response(200, IF h.op = "collect-fee" THEN "Fee marked as collected"
                           ELSE "Fee collection reversed")
  /\ End(h)
  /\ UNCHANGED <<leads, leads_id_seq, now, slack, input, chat>>

\* ------------------------------------------------------------ the service
\* a handler in flight takes its next step
Continue(h) ==
  \/ ToolReturn(h, FALSE)
  \/ WhMatch(h)
  \/ WhUpdate(h)
  \/ WhSend(h)
  \/ WhNotify(h)
  \/ FeeUpdate(h)
  \/ UnUpdate(h)
  \/ FeeRespond(h)

\* the tool calls, bookings and fee requests the service is driven with: one
\* high-intent lead of a@x.com, the qualify_lead calls, the bookings that
\* carry an email, and the fee routes on the ids of the first rows; the
\* storage is reachable and the answers of its statements arrive
ServiceQSArgs == {a \in QSArgs : a.lead_email = "a@x.com"}
ServiceEvents == {ev \in WebhookEvents : ev.event = "invitee.created" /\ ev.email # Undef}
ServiceOperator == "user_admin1"

Next ==
  \/ \E args \in ServiceQSArgs : ToolInsert("qualify_and_schedule", args, FALSE)
  \/ \E args \in QLArgs : ToolInsert("qualify_lead", args, FALSE)
  \/ \E ev \in ServiceEvents : WhLookup(ev)
  \/ \E id \in 1 .. MaxLeads : FeeSelect(id, ServiceOperator)
  \/ \E id \in 1 .. MaxLeads : UnSelect(id, ServiceOperator)
  \/ \E h \in Handlers : Continue(h)

Spec == Init /\ [][Next]_vars

\* ------------------------------------------- storage.createLead in isolation
\* InsertLead values a caller of storage.createLead may pass
CLInputs ==
  { [EmptyInsert EXCEPT !.painPoint = "lead triage", !.email = e, !.companySize = cs,
                        !.budgetConfirmed = b, !.isHighIntent = h]
      : e \in {Undef, "a@x.com"},
        cs \in {Undef, "1-10", "11-50", "51-200", "200+", "unknown"},
        b \in {Undef, "true", "false"},
        h \in {Undef, "true", "false"} }

InitCL == InitCommon /\ input \in CLInputs

\* one call storage.createLead(input): the database executes the insert
CLCreate ==
  /\ leads = NoRows
  /\ ~InsertThrows(createLeadValues(input))
  /\ leads' = createLead(leads, leads_id_seq, input, now)
  /\ leads_id_seq' = nextval(leads_id_seq)
  /\ last' = NoResponse
  /\ UNCHANGED <<now, slack, reqs, input, chat>>

NextCL == CLCreate

SpecCL == InitCL /\ [][NextCL]_vars

\* ------------------------------------------------------ webhook deliveries
\* bookings and other events are delivered while leads are created
NextConc ==
  \/ \E args \in QSArgs : ToolInsert("qualify_and_schedule", args, FALSE)
  \/ \E args \in QLArgs : ToolInsert("qualify_lead", args, FALSE)
  \/ \E ev \in WebhookEvents : WhLookup(ev)
  \/ \E h \in Handlers : ToolReturn(h, FALSE)
  \/ \E h \in Handlers : WhMatch(h)
  \/ \E h \in Handlers : WhUpdate(h)
  \/ \E h \in Handlers : WhSend(h)
  \/ \E h \in Handlers : WhNotify(h)

SpecConc == Init /\ [][NextConc]_vars

\* ------------------------------------------------- webhook signature gate
\* crypto.createHmac("sha256", key).update(msg).digest("hex"): a digest that
\* is determined by key and message and differs when either differs
HmacSha256Hex(key, msg) == "hmac(" \o key \o ";" \o msg \o ")"

\* the request body as the handler signs it (rawBody)
RawBodyOf(ev) == ev.event \o "|" \o ev.uri \o "|" \o ev.email

\* a Calendly-Webhook-Signature header: the pieces of signature.split(",")
\* after split("="); the empty sequence when the request has no such header
NoHeader == <<>>

\* the reduce of verifyCalendlySignature: [key, val] of every part, the parts
\* named t and v1 kept (a later part replaces an earlier one)
RECURSIVE ParseSignature(_, _)
ParseSignature(parts, acc) ==
  IF parts = <<>> THEN acc
  ELSE LET curr == Head(parts)
           key == curr[1]
           val == IF Len(curr) >= 2 THEN curr[2] ELSE Undef
           acc1 == IF key = "t" THEN [acc EXCEPT !.t = val] ELSE acc
           acc2 == IF key = "v1" THEN [acc1 EXCEPT !.v1 = val] ELSE acc1
       IN ParseSignature(Tail(parts), acc2)

\* JavaScript !x on a string or undefined
Falsy(x) == x = Undef \/ x = ""

\* any header with a t and a v1 part is accepted
verifyCalendlySignature_noCompare(payload, signature, signingKey) ==
  IF signature = NoHeader \/ signature = << <<"">> >> THEN FALSE
  ELSE LET parts == ParseSignature(signature, [t |-> "", v1 |-> ""])
       IN ~(Falsy(parts.t) \/ Falsy(parts.v1))

\* verifyCalendlySignature(payload, signature, signingKey)
verifyCalendlySignature(payload, signature, signingKey) ==
  IF signature = NoHeader \/ signature = << <<"">> >> THEN FALSE
  ELSE LET parts == ParseSignature(signature, [t |-> "", v1 |-> ""])
       IN IF Falsy(parts.t) \/ Falsy(parts.v1) THEN FALSE
          ELSE parts.v1 = HmacSha256Hex(signingKey, parts.t \o "." \o payload)

\* values of CALENDLY_WEBHOOK_SIGNING_KEY: unset, empty, set
SigningKeys == {Undef, "", "k1"}

\* signature headers sent with body ev: none, empty, the sender's (key k1,
\* either part order, with a further part), and defective ones
SigHeaders(ev) ==
  LET sig == HmacSha256Hex("k1", "1700" \o "." \o RawBodyOf(ev))
  IN { NoHeader,
       << <<"">> >>,
       << <<"t", "1700">>, <<"v1", sig>> >>,
       << <<"v1", sig>>, <<"t", "1700">> >>,
       << <<"t", "1700">>, <<"v1", sig>>, <<"v0", "legacy">> >>,
       << <<"v1", sig>> >>,
       << <<"t", "1700">> >>,
       << <<"t">>, <<"v1", sig>> >>,
       << <<"t", "1700">>, <<"v1">> >>,
       << <<"t", "1800">>, <<"v1", sig>> >>,
       << <<"t", "1700">>,
          <<"v1", HmacSha256Hex("k2", "1700" \o "." \o RawBodyOf(ev))>> >> }

\* bodies the gate is exercised with: a booking and another event type
SigEvents == {ev \in WebhookEvents : ev.email = "a@x.com"}

\* the deployment's signing key and the request under test
SigInputs ==
  { [key |-> k, header |-> h, ev |-> ev] :
      k \in SigningKeys, ev \in SigEvents, h \in UNION {SigHeaders(e) : e \in SigEvents} }

InitSig == InitCommon /\ input \in SigInputs

\* POST /api/webhooks/calendly: the signature gate, then event processing
SigWebhook ==
  IF ~Falsy(input.key)
     /\ ~verifyCalendlySignature(RawBodyOf(input.ev), input.header, input.key)
  THEN /\ last' = Response(403, "Invalid signature")
       /\ UNCHANGED <<leads, leads_id_seq, now, slack, reqs, input, chat>>
  ELSE WhLookup(input.ev)

NextSig ==
  \/ \E args \in ServiceQSArgs : ToolInsert("qualify_and_schedule", args, FALSE)
  \/ SigWebhook
  \/ \E h \in Handlers : ToolReturn(h, FALSE)
  \/ \E h \in Handlers : WhMatch(h)
  \/ \E h \in Handlers : WhUpdate(h)
  \/ \E h \in Handlers : WhSend(h)
  \/ \E h \in Handlers : WhNotify(h)

SpecSig == InitSig /\ [][NextSig]_vars

\* ---------------------------------------------------------------- chat turn
\* z.string().min(1).max(4000)
CONTENT_MIN_LENGTH == 1
CONTENT_MAX_LENGTH == 4000

\* the empty string is accepted
chatMessageSchema_noMin(body) ==
  body.type = "string" /\ body.len <= CONTENT_MAX_LENGTH

\* chatMessageSchema.safeParse(req.body).success, body given by the type of
\* its content property and, for a string, its length
chatMessageSchema(body) ==
  /\ body.type = "string"
  /\ body.len >= CONTENT_MIN_LENGTH
  /\ body.len <= CONTENT_MAX_LENGTH

\* request bodies: content a string around both limits, a number, or absent
ChatContents ==
  { [type |-> "string", len |-> n] :
      n \in {0, CONTENT_MIN_LENGTH, CONTENT_MAX_LENGTH, CONTENT_MAX_LENGTH + 1} }
  \cup {[type |-> "number", len |-> 0], NoContent}

\* the text stored for a user message (valid texts are not told apart)
UserText(body) == IF chatMessageSchema(body) THEN "user text" ELSE Undef

\* tool_calls lists of a completion: the tool calls the model may request;
\* json tells whether function.arguments is JSON text, args what it parses to
ToolCallLists ==
  LET qsA == CHOOSE a \in QSArgs : a.lead_email = "a@x.com"
      qsB == CHOOSE a \in QSArgs : a.lead_email = "b@x.com"
      qlBob == CHOOSE a \in QLArgs : a.name = "Bob"
      qlAnn == CHOOSE a \in QLArgs : a.name = "Ann"
  IN { << [name |-> "qualify_and_schedule", args |-> qsA, json |-> TRUE] >>,
       << [name |-> "get_weather", args |-> qsA, json |-> TRUE],
          [name |-> "qualify_lead", args |-> qlBob, json |-> TRUE] >>,
       << [name |-> "qualify_lead", args |-> qlAnn, json |-> TRUE],
          [name |-> "qualify_and_schedule", args |-> qsB, json |-> TRUE] >>,
       << [name |-> "book_demo", args |-> qlBob, json |-> TRUE] >>,
       << [name |-> "qualify_lead", args |-> qlBob, json |-> TRUE],
          [name |-> "qualify_and_schedule", args |-> NoArgs, json |-> FALSE] >>,
       << [name |-> "get_weather", args |-> NoArgs, json |-> FALSE] >> }

\* response.choices[0].message of the first completion: without a tool_calls
\* property, or with one, which may be the empty array
LLMReplies ==
  { [content |-> c] : c \in {"", "Hello"} }
  \cup
  { [content |-> c, tool_calls |-> tc] :
      c \in {"", "Hello"}, tc \in ToolCallLists \cup {<<>>} }

\* content of the follow-up completion
FollowUpContents == {"", "You are booked"}

\* if (message?.tool_calls): an array, empty or not, is truthy
HasToolCalls(message) == "tool_calls" \in DOMAIN message

\* the messages of the conversation as chat-completion turns behind the system prompt
HistoryOf(log) == <<[role |-> "system", content |-> "SYSTEM_PROMPT"]>> \o log

\* the tool call the loop of turn h is at
ChatCall(h) == h.toolCalls[Len(h.functionCalls) + 1]

\* functionCalls.push and the two chatHistory.push of one iteration of the
\* tool_calls loop, whose handleFunctionCall returned result
ChatPush(h, result) ==
  [h EXCEPT
     !.functionCalls = Append(@, [name |-> ChatCall(h).name, arguments |-> ChatCall(h).args,
                                  result |-> result]),
     !.history = @ \o <<[role |-> "assistant", content |-> ChatCall(h).name],
                        [role |-> "tool", content |-> result]>>,
     !.pc = IF Len(h.functionCalls) + 1 = Len(h.toolCalls) THEN "followUp" ELSE "tools",
     !.lead = NoLead,
     !.trace = Append(@, "tool")]

\* the catch of the chat route
CHAT_FAILED == "Failed to process chat"

\* POST /api/chat/:conversationId arrives: a body that fails validation is
\* refused at once; otherwise the database executes the insert of
\* storage.createMessage for the user message, which it refuses when the
\* conversation has no row (foreign key), or the storage is unreachable
\* (dbFails)
ChatPost(body, dbFails) ==
  /\ Accepting
  /\ chat.turns < MaxTurns
  /\ IF ~chatMessageSchema(body)
     THEN /\ chat' = [chat EXCEPT !.content = body]
          /\ last' = Response(400, "Content is required and must be between 1-4000 characters")
          /\ UNCHANGED reqs
     ELSE IF chat.exists /\ ~dbFails
     THEN /\ chat' = [chat EXCEPT !.log = Append(@, [role |-> "user", content |-> UserText(body)]),
                                  !.turns = @ + 1, !.content = body]
          /\ Start([NewReq EXCEPT !.pc = "stored", !.op = "chat", !.trace = <<"log-user">>])
          /\ last' = NoResponse
     ELSE /\ chat' = [chat EXCEPT !.turns = @ + 1, !.content = body]
          /\ Start([NewReq EXCEPT !.pc = "stored", !.op = "chat", !.failed = TRUE])
          /\ last' = NoResponse
  /\ UNCHANGED <<leads, leads_id_seq, now, slack, input>>

\* the user message of turn h is stored and the database executes the select
\* of storage.getMessagesByConversation, from which chatHistory is built
ChatHistory(h) ==
  /\ h.op = "chat"
  /\ h.pc = "stored"
  /\ ~h.failed
  /\ Move(h, [h EXCEPT !.pc = "llm", !.history = HistoryOf(chat.log)])
  /\ last' = NoResponse
  /\ UNCHANGED <<leads, leads_id_seq, now, slack, input, chat>>

\* the messages are returned and the first openai.chat.completions.create
\* returns message
ChatLLM(h, message) ==
  /\ h.op = "chat"
  /\ h.pc = "llm"
  /\ Move(h, [h EXCEPT !.sent = Append(@, h.history),
                       !.responseText = message.content,
                       !.toolCalls = IF HasToolCalls(message) THEN message.tool_calls ELSE <<>>,
                       !.pc = IF ~HasToolCalls(message) THEN "append"
                              ELSE IF message.tool_calls = <<>> THEN "followUp"
                              ELSE "tools",
                       !.trace = Append(@, "llm")])
  /\ last' = NoResponse
  /\ UNCHANGED <<leads, leads_id_seq, now, slack, input, chat>>

\* one iteration of the tool_calls loop: JSON.parse of the arguments, which
\* throws into the catch of the route when they are not JSON, then
\* handleFunctionCall up to its await: the database executes the insert, or
\* the storage is unreachable (dbFails); a name without a case returns at
\* once and the iteration is completed
ChatTool(h, dbFails) ==
  /\ h.op = "chat"
  /\ h.pc = "tools"
  /\ IF ~ChatCall(h).json
     THEN /\ last' = Response(500, CHAT_FAILED)
          /\ End(h)
          /\ UNCHANGED <<leads, leads_id_seq, now>>
     ELSE \E dt \in ClockSteps :
            LET r == handleFunctionCall(ChatCall(h).name, ChatCall(h).args, leads,
                                        leads_id_seq, now + dt,
                                        IF dbFails THEN "down" ELSE "up")
            IN /\ WithinBounds(r)
               /\ leads' = r.leads
               /\ leads_id_seq' = r.seq
               /\ now' = IF r.stored THEN now + dt ELSE now
               /\ IF ChatCall(h).name \in KnownTools
                  THEN Move(h, [h EXCEPT !.pc = "toolReturn",
                                         !.lead = IF r.stored THEN [id |-> r.seq]
                                                  ELSE NoLead])
                  ELSE Move(h, ChatPush(h, r.result))
               /\ last' = NoResponse
  /\ UNCHANGED <<slack, input, chat>>

\* the await in handleFunctionCall ends: createLead returns the row, the lead
\* notification is started after a qualify_and_schedule lead and the string
\* is returned, or createLead rejects (nothing was stored, or the answer of
\* the insert is lost) and the catch returns its string; the iteration is
\* completed
ChatToolReturn(h, lost) ==
  /\ h.op = "chat"
  /\ h.pc = "toolReturn"
  /\ LET r == handleFunctionCall(ChatCall(h).name, ChatCall(h).args, leads,
                                 leads_id_seq, now, StorageOf(h.lead, lost))
     IN /\ slack' = IF r.notified THEN [slack EXCEPT !.lead = @ + 1] ELSE slack
        /\ Move(h, ChatPush(h, r.result))
  /\ last' = NoResponse
  /\ UNCHANGED <<leads, leads_id_seq, now, input, chat>>

\* the follow-up openai.chat.completions.create returns content
ChatFollowUp(h, content) ==
  /\ h.op = "chat"
  /\ h.pc = "followUp"
  /\ Move(h, [h EXCEPT !.sent = Append(@, h.history),
                       !.responseText = OrElse(content, @),
                       !.pc = "append",
                       !.trace = Append(@, "llm")])
  /\ last' = NoResponse
  /\ UNCHANGED <<leads, leads_id_seq, now, slack, input, chat>>

\* the failed turn's user message is taken back
ChatLLMFail_rollsBack(h) ==
  /\ h.op = "chat"
  /\ h.pc = "llm"
  /\ chat' = [chat EXCEPT !.log = SubSeq(@, 1, Len(@) - 1)]
  /\ last' = Response(500, CHAT_FAILED)
  /\ End(h)
  /\ UNCHANGED <<leads, leads_id_seq, now, slack, input>>

\* the read of the messages or the first openai.chat.completions.create
\* throws: the catch answers 500
ChatLLMFail(h) ==
  /\ h.op = "chat"
  /\ h.pc = "llm"
  /\ last' = Response(500, CHAT_FAILED)
  /\ End(h)
  /\ UNCHANGED <<leads, leads_id_seq, now, slack, input, chat>>

\* the follow-up openai.chat.completions.create throws after the tool calls
\* ran: the catch answers 500
ChatFollowUpFail(h) ==
  /\ h.op = "chat"
  /\ h.pc = "followUp"
  /\ last' = Response(500, CHAT_FAILED)
  /\ End(h)
  /\ UNCHANGED <<leads, leads_id_seq, now, slack, input, chat>>

\* if (responseText)
AppendsAssistant(responseText) == responseText # ""

\* the last completion is answered: with a reply text the database executes
\* the insert of storage.createMessage for the assistant message (refused
\* when the conversation has no row, not executed when the storage is
\* unreachable); without one the turn is answered at once
ChatAppend(h, dbFails) ==
  /\ h.op = "chat"
  /\ h.pc = "append"
  /\ IF ~AppendsAssistant(h.responseText)
     THEN /\ last' = Response(200, h.responseText)
          /\ End(h)
          /\ UNCHANGED chat
     ELSE IF chat.exists /\ ~dbFails
     THEN /\ chat' = [chat EXCEPT !.log = Append(@, [role |-> "assistant",
                                                      content |-> h.responseText])]
          /\ Move(h, [h EXCEPT !.pc = "respond", !.trace = Append(@, "log-assistant")])
          /\ last' = NoResponse
     ELSE /\ Move(h, [h EXCEPT !.pc = "respond", !.failed = TRUE])
          /\ last' = NoResponse
          /\ UNCHANGED chat
  /\ UNCHANGED <<leads, leads_id_seq, now, slack, input>>

\* the assistant message is stored: res.json({ response: responseText,
\* functionCalls })
ChatRespond(h) ==
  /\ h.op = "chat"
  /\ h.pc = "respond"
  /\ ~h.failed
  /\ last' = Response(200, h.responseText)
  /\ End(h)
  /\ UNCHANGED <<leads, leads_id_seq, now, slack, input, chat>>

\* storage.createMessage rejects (the insert was refused or not executed, or
\* it was applied and its answer is lost): the catch answers 500
ChatStoreFail(h) ==
  /\ h.op = "chat"
  /\ h.pc \in {"stored", "respond"}
  /\ last' = Response(500, CHAT_FAILED)
  /\ End(h)
  /\ UNCHANGED <<leads, leads_id_seq, now, slack, input, chat>>

\* storage.deleteConversation(id) is called and the database executes its
\* first statement, DELETE FROM messages WHERE conversation_id = id
DeleteMessages ==
  /\ Accepting
  /\ chat' = [chat EXCEPT !.log = <<>>]
  /\ Start([NewReq EXCEPT !.pc = "messagesDeleted", !.op = "deleteConversation"])
  /\ last' = NoResponse
  /\ UNCHANGED <<leads, leads_id_seq, now, slack, input>>

\* the first statement is answered and the database executes the second,
\* DELETE FROM conversations WHERE id = id, which takes the messages stored
\* since with it (ON DELETE CASCADE)
DeleteRow(h) ==
  /\ h.op = "deleteConversation"
  /\ h.pc = "messagesDeleted"
  /\ chat' = [chat EXCEPT !.exists = FALSE, !.log = <<>>]
  /\ Move(h, [h EXCEPT !.pc = "rowDeleted"])
  /\ last' = NoResponse
  /\ UNCHANGED <<leads, leads_id_seq, now, slack, input>>

\* the second statement is answered and deleteConversation returns
DeleteReturn(h) ==
  /\ h.op = "deleteConversation"
  /\ h.pc = "rowDeleted"
  /\ End(h)
  /\ last' = NoResponse
  /\ UNCHANGED <<leads, leads_id_seq, now, slack, input, chat>>

\* chat requests for one conversation, handled concurrently, and the deletion
\* of the conversation
NextChat ==
  \/ \E body \in ChatContents, dbFails \in BOOLEAN : ChatPost(body, dbFails)
  \/ \E h \in Handlers : ChatHistory(h)
  \/ \E h \in Handlers, message \in LLMReplies : ChatLLM(h, message)
  \/ \E h \in Handlers, dbFails \in BOOLEAN : ChatTool(h, dbFails)
  \/ \E h \in Handlers, lost \in BOOLEAN : ChatToolReturn(h, lost)
  \/ \E h \in Handlers, content \in FollowUpContents : ChatFollowUp(h, content)
  \/ \E h \in Handlers : ChatLLMFail(h)
  \/ \E h \in Handlers : ChatFollowUpFail(h)
  \/ \E h \in Handlers, dbFails \in BOOLEAN : ChatAppend(h, dbFails)
  \/ \E h \in Handlers : ChatRespond(h)
  \/ \E h \in Handlers : ChatStoreFail(h)
  \/ DeleteMessages
  \/ \E h \in Handlers : DeleteRow(h)
  \/ \E h \in Handlers : DeleteReturn(h)

SpecChat == Init /\ [][NextChat]_vars

\* ------------------------------------------- webhook deliveries that fail
\* bookings of a@x.com, delivered and redelivered, whose storage calls may
\* throw
RetryEvents == {ev \in ServiceEvents : EmailOf(ev) = "a@x.com"}

\* a webhook delivery is being handled
Delivering == \E h \in Handlers : h.op = "webhook"

\* the scheduler sends a delivery once the one before it is answered (a
\* redelivery follows the 500 it retries), while leads are created
NextRetry ==
  \/ \E args \in ServiceQSArgs : ToolInsert("qualify_and_schedule", args, FALSE)
  \/ \E ev \in RetryEvents : ~Delivering /\ WhLookup(ev)
  \/ \E h \in Handlers : ToolReturn(h, FALSE)
  \/ \E h \in Handlers : WhMatch(h)
  \/ \E h \in Handlers : WhUpdate(h)
  \/ \E h \in Handlers : WhSend(h)
  \/ \E h \in Handlers : WhNotify(h)
  \/ \E h \in Handlers : WhFail(h)

SpecRetry == Init /\ [][NextRetry]_vars

\* ------------------------------------------------ matching on stored emails
\* qualify_lead arguments whose email is absent, lower-case or upper-case
MatchArgs ==
  { [name |-> Undef, company |-> Undef, email |-> e, painPoint |-> "support"] :
      e \in {Undef, "a@x.com", "A@X.COM"} }

\* bookings whose email is lower-case, upper-case, empty or absent
MatchEvents ==
  { [event |-> "invitee.created", email |-> e, uri |-> "inv1",
     scheduledEvent |-> "evt1", start_time |-> StartTimeOf("inv1")] :
      e \in {"a@x.com", "A@X.COM", "", Undef} }
  \cup
  { [event |-> "invitee.created", email |-> "A@X.COM", uri |-> "inv2",
     scheduledEvent |-> "evt2", start_time |-> StartTimeOf("inv2")] }

\* events delivered one kind at a time: the bookings above, a booking of
\* another visitor and an event of another type
DeliveredEvents ==
  MatchEvents \cup {ev \in WebhookEvents : ev.event # "invitee.created" \/ ev.email = "b@x.com"}

InitMatch == InitCommon /\ input \in DeliveredEvents

\* the event in input is delivered, any number of times, while leads are
\* created
NextMatch ==
  \/ \E args \in MatchArgs : ToolInsert("qualify_lead", args, FALSE)
  \/ WhLookup(input)
  \/ \E h \in Handlers : ToolReturn(h, FALSE)
  \/ \E h \in Handlers : WhMatch(h)
  \/ \E h \in Handlers : WhUpdate(h)
  \/ \E h \in Handlers : WhSend(h)
  \/ \E h \in Handlers : WhNotify(h)

SpecMatch == InitMatch /\ [][NextMatch]_vars

\* ------------------------------------------- tool calls on arbitrary arguments
\* qualify_and_schedule arguments: a pain point and nothing else but every
\* combination of intent_type and legacy lead_type; and, with neither type,
\* the pain point absent or empty and the contact fields given
ToolQSArgs ==
  { [NoArgs EXCEPT !.intent_type = it, !.lead_type = lt,
                   !.primary_pain_point = "lead triage"] :
      it \in {Undef, "", "business_upgrade", "venture_studio"},
      lt \in {Undef, "venture_studio", "partnership"} }
  \cup
  { [NoArgs EXCEPT !.primary_pain_point = pp, !.lead_name = "Ann",
                   !.company_name = "Acme", !.lead_email = "a@x.com"] :
      pp \in {Undef, "", "lead triage"} }
  \cup
  { NoArgs }

\* qualify_lead arguments: the pain point absent or given, the contact fields
\* all absent or all given
ToolQLArgs ==
  { [name |-> c[1], company |-> c[2], email |-> c[3], painPoint |-> pp] :
      pp \in {Undef, "support"},
      c \in {<<Undef, Undef, Undef>>, <<"Ann", "Acme", "a@x.com">>} }

\* the tool call under test
ToolCalls ==
  { [name |-> "qualify_and_schedule", args |-> a] : a \in ToolQSArgs }
  \cup
  { [name |-> "qualify_lead", args |-> a] : a \in ToolQLArgs }

InitTool == InitCommon /\ input \in ToolCalls

\* the call in input is made, any number of times, the storage reachable or
\* not and the answer of its insert received or lost
NextTool ==
  \/ \E dbFails \in BOOLEAN : ToolInsert(input.name, input.args, dbFails)
  \/ \E h \in Handlers, lost \in BOOLEAN : ToolReturn(h, lost)

SpecTool == InitTool /\ [][NextTool]_vars

\* ------------------------------------------------------------ funnel metrics
\* largest count the aggregation query is made to return
MaxCount == 40

\* sum(...) over no rows
NullCount == -1

\* metrics?.x || 0
OrZero(x) == IF x = NullCount THEN 0 ELSE x

\* significant bits of a Number (IEEE 754 binary64).  A positive Number is
\* [bits, exp]: bits are its 53 significant bits, the first of which is 1 and
\* has the weight 2^exp
Precision == 53

\* bits of a limb, the unit in which long significands are multiplied
LimbBits == 20

\* the last bit of a sequence of bits taken off
Front(bits) == SubSeq(bits, 1, Len(bits) - 1)

\* the integer whose bits these are (at most 30 of them)
RECURSIVE ValueOf(_)
ValueOf(bits) ==
  IF bits = <<>> THEN 0 ELSE 2 * ValueOf(Front(bits)) + bits[Len(bits)]

\* the last n bits of the integer v
BitsOf(v, n) == [i \in 1 .. n |-> (v \div 2^(n - i)) % 2]

\* the number of bits of the positive integer v (below 2^30)
BitLength(v) == CHOOSE n \in 1 .. 30 : 2^(n - 1) <= v /\ v < 2^n

\* bits + 1 on Len(bits) bits, and the carry out of them
Increment(bits) ==
  LET zeros == {i \in DOMAIN bits : bits[i] = 0}
  IN IF zeros = {} THEN [bits |-> [i \in DOMAIN bits |-> 0], carry |-> 1]
     ELSE LET z == CHOOSE i \in zeros : \A j \in zeros : j <= i
          IN [bits |-> [i \in DOMAIN bits |-> IF i < z THEN bits[i]
                                               ELSE IF i = z THEN 1 ELSE 0],
              carry |-> 0]

\* the Number nearest to the exact value whose bits (more than Precision of
\* them, the first one 1) start at weight 2^exp: round to nearest, ties to
\* the even significand
RoundTiesToEven(bits, exp) ==
  LET kept == SubSeq(bits, 1, Precision)
      guard == bits[Precision + 1]
      sticky == \E i \in Precision + 2 .. Len(bits) : bits[i] = 1
      up == guard = 1 /\ (sticky \/ kept[Precision] = 1)
      inc == Increment(kept)
  IN IF ~up THEN [bits |-> kept, exp |-> exp]
     ELSE IF inc.carry = 0 THEN [bits |-> inc.bits, exp |-> exp]
     ELSE [bits |-> <<1>> \o Front(inc.bits), exp |-> exp + 1]

\* num and den scaled by powers of two until den <= num < 2 * den, and the
\* exponent exp with num/den = (scaled num / scaled den) * 2^exp
RECURSIVE Normalised(_, _, _)
Normalised(num, den, exp) ==
  IF num < den THEN Normalised(2 * num, den, exp - 1)
  ELSE IF num >= 2 * den THEN Normalised(num, 2 * den, exp + 1)
  ELSE [num |-> num, den |-> den, exp |-> exp]

\* 2^j modulo den
RECURSIVE PowerOfTwoMod(_, _)
PowerOfTwoMod(j, den) ==
  IF j = 0 THEN 1 % den
  ELSE LET half == PowerOfTwoMod(j \div 2, den)
       IN (half * half * (IF j % 2 = 1 THEN 2 ELSE 1)) % den

\* what long division leaves of num behind j bits of the fraction of
\* num/den: num * 2^j modulo den
Remainder(num, den, j) == ((num % den) * PowerOfTwoMod(j, den)) % den

\* the first n bits of num/den (den <= num < 2 * den): bit 1 is the integer
\* part, bit i the next bit long division takes out of the remainder
QuotientBits(num, den, n) ==
  [i \in 1 .. n |-> IF i = 1 THEN 1
                    ELSE IF 2 * Remainder(num, den, i - 2) >= den THEN 1 ELSE 0]

\* num / den on Numbers, for positive integers num and den
DoubleDivide(num, den) ==
  LET n == Normalised(num, den, 0)
      inexact == Remainder(n.num, n.den, Precision) # 0
  IN RoundTiesToEven(QuotientBits(n.num, n.den, Precision + 1)
                       \o <<IF inexact THEN 1 ELSE 0>>, n.exp)

\* the bits of bits * k, for Precision bits and a positive integer k below
\* 1024: the significand is multiplied limb by limb, the carries going up
TimesBits(bits, k) ==
  LET low == ValueOf(SubSeq(bits, Precision - LimbBits + 1, Precision)) * k
      mid == ValueOf(SubSeq(bits, Precision - 2 * LimbBits + 1, Precision - LimbBits)) * k
               + low \div 2^LimbBits
      high == ValueOf(SubSeq(bits, 1, Precision - 2 * LimbBits)) * k
               + mid \div 2^LimbBits
  IN BitsOf(high, BitLength(high)) \o BitsOf(mid % 2^LimbBits, LimbBits)
       \o BitsOf(low % 2^LimbBits, LimbBits)

\* x * k on Numbers, for a positive Number x and an integer k, 2 <= k < 1024
DoubleTimes(x, k) ==
  LET product == TimesBits(x.bits, k)
  IN RoundTiesToEven(product, x.exp + Len(product) - Precision)

\* Math.round(x) for a positive Number x below 2^30: the nearest integer, a
\* half going up
MathRound(x) ==
  IF x.exp < -1 THEN 0
  ELSE ValueOf(SubSeq(x.bits, 1, x.exp + 1)) + x.bits[x.exp + 2]

\* Math.round((num / den) * 100) for counts num >= 0 and den > 0
MathRoundPercent(num, den) ==
  IF num = 0 THEN 0 ELSE MathRound(DoubleTimes(DoubleDivide(num, den), 100))

\* the percentage is truncated
conversionRate_truncates(highIntentCount, scheduledCount) ==
  IF highIntentCount > 0 THEN (100 * scheduledCount) \div highIntentCount ELSE 0

\* getFunnelMetrics: conversionRate
conversionRate(highIntentCount, scheduledCount) ==
  IF highIntentCount > 0 THEN MathRoundPercent(scheduledCount, highIntentCount) ELSE 0

\* the row of the aggregation query: both sums NULL (no lead in the period)
\* or both counts; conversionRate is not computed yet
FunnelInputs ==
  { [highIntentCount |-> NullCount, scheduledCount |-> NullCount,
     conversionRate |-> NullCount] }
  \cup
  { [highIntentCount |-> h, scheduledCount |-> s, conversionRate |-> NullCount] :
      h, s \in 0 .. MaxCount }

InitFunnel == InitCommon /\ input \in FunnelInputs

\* getFunnelMetrics on the row in input: the conversionRate of the metrics it
\* returns is put beside the counts
GetFunnelMetrics ==
  /\ input' = [input EXCEPT !.conversionRate =
                 conversionRate(OrZero(input.highIntentCount), OrZero(input.scheduledCount))]
  /\ last' = Response(200, "metrics")
  /\ UNCHANGED <<leads, leads_id_seq, now, slack, reqs, chat>>

NextFunnel == GetFunnelMetrics

SpecFunnel == InitFunnel /\ [][NextFunnel]_vars

\* ------------------------------------------------------------ fee requests
\* one booked high-intent lead, and collect-fee and uncollect-fee requests of
\* two operators on it and on ids without a row
FeeEvents == {ev \in ServiceEvents : ev.uri = "inv1"}

NextFee ==
  \/ \E args \in ServiceQSArgs : ToolInsert("qualify_and_schedule", args, FALSE)
  \/ \E ev \in FeeEvents : WhLookup(ev)
  \/ \E id \in LeadIdParams, a \in Operators : FeeSelect(id, a)
  \/ \E id \in LeadIdParams, a \in Operators : UnSelect(id, a)
  \/ \E h \in Handlers : Continue(h)

SpecFee == Init /\ [][NextFee]_vars

\* ------------------------------------------------ admin middleware chain
\* String.prototype.trim on the pieces the model uses
Trim(s) == IF s = " user_admin2" THEN "user_admin2" ELSE s

\* ADMIN_USER_IDS, from the pieces of ADMIN_USER_ID between commas (an unset
\* variable is the single empty piece): trimmed, empty pieces dropped
AdminUserIds(pieces) ==
  SelectSeq([i \in DOMAIN pieces |-> Trim(pieces[i])], LAMBDA x : x # "")

\* values of ADMIN_USER_ID: unset, one id, two ids separated by ", "
AdminEnvs == { <<"">>, <<"user_admin1">>, <<"user_admin1", " user_admin2">> }

\* the user a request is signed in as, or none
Sessions == {Undef, "user_admin1", "user_admin2"}

\* process environments, and the Clerk session of the requests made
AuthConfigs ==
  { [nodeEnv |-> e[1], skipAuth |-> e[2], adminUserId |-> a, session |-> s] :
      e \in { <<"development", "true">>, <<"development", "false">>,
               <<"production", "true">> },
      a \in AdminEnvs, s \in Sessions }

\* the answer to a request for an admin route that is not signed in: the
\* status missing admin authentication is answered with; nothing is said
\* about its body
Unauthenticated == Response(401, Undef)

\* requireAuth, the authentication the dashboard and admin routes are put
\* behind: a signed-in request goes on with req.auth.userId set, any other is
\* answered Unauthenticated and goes no further
requireAuth(session) ==
  IF session # Undef THEN [next |-> TRUE, userId |-> session]
  ELSE [next |-> FALSE, userId |-> Undef]

\* devBypassAuth: next() with req.auth untouched, or requireAuth
devBypassAuth(cfg, session) ==
  IF cfg.nodeEnv = "development" /\ cfg.skipAuth = "true"
  THEN [next |-> TRUE, userId |-> Undef]
  ELSE requireAuth(session)

\* every signed-in user is let through
requireAdmin_anyUser(userId, adminIds) ==
  IF userId = Undef THEN 401 ELSE 0

\* requireAdmin: the status it answers with, 0 when it calls next()
requireAdmin(userId, adminIds) ==
  IF userId = Undef THEN 401
  ELSE IF Len(adminIds) = 0 THEN 0
  ELSE IF \A k \in DOMAIN adminIds : adminIds[k] # userId THEN 403
  ELSE 0

\* the fee routes behind devBypassAuth, requireAdmin
AdminRoutes == {"collect-fee", "uncollect-fee"}

\* one request to an admin route: devBypassAuth and requireAdmin, then the
\* handler up to its select
AdminRequest(route, leadId) ==
  LET a == devBypassAuth(input, input.session)
      st == requireAdmin(a.userId, AdminUserIds(input.adminUserId))
  IN IF ~a.next
     THEN /\ last' = Unauthenticated
          /\ UNCHANGED <<leads, leads_id_seq, now, slack, reqs, input, chat>>
     ELSE IF st # 0
     THEN /\ last' = Response(st, IF st = 401 THEN "Authentication required"
                                  ELSE "Admin access required")
          /\ UNCHANGED <<leads, leads_id_seq, now, slack, reqs, input, chat>>
     ELSE IF route = "collect-fee"
     THEN FeeSelect(leadId, OrElse(a.userId, "system"))
     ELSE UnSelect(leadId, OrElse(a.userId, "system"))

InitAuth == InitCommon /\ input \in AuthConfigs

NextAuth ==
  \/ \E args \in ServiceQSArgs : ToolInsert("qualify_and_schedule", args, FALSE)
  \/ \E ev \in FeeEvents : WhLookup(ev)
  \/ \E route \in AdminRoutes, id \in 1 .. MaxLeads : AdminRequest(route, id)
  \/ \E h \in Handlers : Continue(h)

SpecAuth == InitAuth /\ [][NextAuth]_vars


\* ================================================================== claims
\* Each claim about a request is stated on the steps of its handler: what a
\* statement returns is judged against the table at the step the database
\* executes it, and what the handler then does against what it was returned.

\* handler h takes its next step in this step; a handler starts, or goes on,
\* as h2 in this step
Stepped(h) == CopiesIn(h, reqs') < CopiesIn(h, reqs)
Entered(h2) == CopiesIn(h2, reqs') > CopiesIn(h2, reqs)

\* the handlers in flight after the step
HandlersAfter == BagToSet(reqs')

\* the handlers of webhook deliveries
WebhookHandlers == {h \in Handlers : h.op = "webhook"}

\* the payload of the event carries an email
HasEmail(ev) == EmailOf(ev) # Undef /\ EmailOf(ev) # ""

\* the leads a step modifies
Changed == {i \in DOMAIN leads : leads'[i] # leads[i]}

\* rows other than id are the same before and after the step, and no row is
\* added
OthersUnchanged(id) ==
  /\ DOMAIN leads' = DOMAIN leads
  /\ \A j \in DOMAIN leads : j # id => leads'[j] = leads[j]

\* C1: every lead stored by storage.createLead has isHighIntent equal to
\* (companySize is "51-200" or "200+") or (budgetConfirmed = true), computed
\* from the caller's companySize and budgetConfirmed (absent and "unknown"
\* included); an isHighIntent value passed by the caller is ignored.
C1_HighIntentRecomputed ==
  \A i \in DOMAIN leads :
    leads[i].isHighIntent =
      (input.companySize \in {"51-200", "200+"} \/ input.budgetConfirmed = "true")

\* a caller passed isHighIntent = true for a small company without budget and
\* the stored flag is false
C1_Witness ==
  /\ DOMAIN leads = {1}
  /\ input.isHighIntent = "true"
  /\ input.companySize = "unknown"
  /\ input.budgetConfirmed = Undef
  /\ ~leads[1].isHighIntent

\* C2: a delivery of an invitee.created body is answered 200 once it has
\* scheduled a lead, and the lead it scheduled holds the body's invitee
\* reference; the idempotency lookup of a delivery of the same body that
\* comes after returns a lead exactly when a lead holds the reference, and
\* the delivery is then answered 200 without changing a lead, running the
\* match query or sending a booking notification.
C2_RedeliveryIdempotent ==
  [][ /\ \A h2 \in HandlersAfter :
           (Entered(h2) /\ h2.op = "webhook" /\ h2.pc = "lookedUp")
             => /\ leads' = leads
                /\ IF \E i \in DOMAIN leads : leads[i].calendlyInviteeUri = h2.ev.uri
                   THEN /\ h2.lead # NoLead
                        /\ leads[h2.lead.id].calendlyInviteeUri = h2.ev.uri
                   ELSE h2.lead = NoLead
      /\ \A h \in WebhookHandlers :
           /\ (Stepped(h) /\ h.pc = "lookedUp" /\ h.lead # NoLead)
                => /\ last' = Response(200, "Event already processed")
                   /\ leads' = leads
                   /\ slack' = slack
                   /\ \A h2 \in HandlersAfter : ~Entered(h2)
           /\ (Stepped(h) /\ h.pc = "matched" /\ h.lead # NoLead)
                => leads'[h.lead.id].calendlyInviteeUri = h.ev.uri
           /\ (Stepped(h) /\ h.pc = "awaitSlack")
                => last' = Response(200, "received") /\ leads' = leads
    ]_vars

\* a redelivery was recognised by the invitee reference a lead holds, while an
\* unscheduled lead with the same email was waiting: one lead scheduled, one
\* booking notification, both deliveries answered
C2_Witness ==
  /\ last = Response(200, "Event already processed")
  /\ reqs = EmptyBag
  /\ slack.booked = 1
  /\ \E i, j \in DOMAIN leads :
       /\ leads[i].scheduledCall /\ leads[i].calendlyInviteeUri = "inv1"
       /\ leads[j].email = leads[i].email /\ ~leads[j].scheduledCall

\* C3: in every step, a lead's successFeeCents either stays as it is or goes
\* from 0 to the configured fee; a non-zero fee is never replaced.
C3_FeeSetOnce ==
  [][ \A i \in DOMAIN leads :
        /\ i \in DOMAIN leads'
        /\ leads'[i].successFeeCents # leads[i].successFeeCents
             => ( /\ leads[i].successFeeCents = 0
                  /\ leads'[i].successFeeCents = SUCCESS_FEE_CENTS ) ]_vars

\* a lead that carries the fee was updated by the deliveries of two bookings
\* (it holds the reference of one while the handler of the other has updated
\* it too), and its collection was reversed
C3_Witness ==
  \E h \in WebhookHandlers :
    /\ h.pc = "awaitSlack"
    /\ leads[h.lead.id].calendlyInviteeUri # h.ev.uri
    /\ leads[h.lead.id].successFeeCents = SUCCESS_FEE_CENTS
    /\ last = Response(200, "Fee collection reversed")

\* C4: a lead with a non-zero successFeeCents is high-intent and scheduled, a
\* row is inserted with successFeeCents 0, and the only step that takes a fee
\* from zero to non-zero is the update of a webhook delivery (never a tool
\* call, a collect-fee or an uncollect-fee).
C4_FeeOnlyByReconciliation ==
  /\ [](\A i \in DOMAIN leads :
          leads[i].successFeeCents > 0 => leads[i].isHighIntent /\ leads[i].scheduledCall)
  /\ [][ /\ \A i \in DOMAIN leads' \ DOMAIN leads : leads'[i].successFeeCents = 0
         /\ (\E i \in DOMAIN leads :
               leads[i].successFeeCents = 0 /\ leads'[i].successFeeCents > 0)
              => \E h \in WebhookHandlers : Stepped(h) /\ h.pc = "matched" ]_vars

\* one scheduled lead carries the fee and another scheduled lead, not
\* high-intent, carries none
C4_Witness ==
  /\ \E i \in DOMAIN leads : leads[i].scheduledCall /\ leads[i].successFeeCents > 0
  /\ \E j \in DOMAIN leads :
       leads[j].scheduledCall /\ ~leads[j].isHighIntent /\ leads[j].successFeeCents = 0

\* C5: every lead with feeCollected = true has successFeeCents > 0.
C5_CollectedHasFee ==
  \A i \in DOMAIN leads : leads[i].feeCollected => leads[i].successFeeCents > 0

\* a fee is collected on one lead and a collection on a lead without fee was
\* just refused
C5_Witness ==
  /\ \E i \in DOMAIN leads : leads[i].feeCollected
  /\ \E j \in DOMAIN leads : leads[j].successFeeCents = 0
  /\ last = Response(400, "No Success Fee assigned to this lead")

\* C6: no two distinct leads hold the same non-null calendlyInviteeUri, also
\* when the storage calls of concurrent deliveries of one booking interleave.
C6_InviteeUriUnique ==
  \A i, j \in DOMAIN leads :
    (i # j /\ leads[i].calendlyInviteeUri # NullStr)
      => leads[i].calendlyInviteeUri # leads[j].calendlyInviteeUri

\* the columns of a lead other than the three fee-collection columns
NonCollectionColumns(row) == DOMAIN row \ {"feeCollected", "feeCollectedAt", "feeCollectedBy"}

\* the handlers of the fee route op
FeeHandlers(op) == {h \in Handlers : h.op = op}

\* what the select of fee handler h2 returned is the row of the table with
\* the requested id, or nothing when the table has no such row
SelectedFromTable(h2) ==
  IF h2.leadId \in DOMAIN leads
  THEN /\ h2.lead # NoLead
       /\ h2.lead.id = h2.leadId
       /\ h2.lead.feeCollected = leads[h2.leadId].feeCollected
       /\ h2.lead.successFeeCents = leads[h2.leadId].successFeeCents
  ELSE h2.lead = NoLead

\* C7: a collect-fee request whose id is not a number is answered 400 at
\* once; otherwise the lead is selected and the request is answered 404 when
\* there is no lead with the id, 400 when the lead selected is already
\* collected and 400 when its successFeeCents is 0, each time leaving the
\* table as it is; otherwise the update sets feeCollected, feeCollectedAt
\* (the current time) and feeCollectedBy (the acting operator) on that lead
\* and changes nothing else, and the request is answered 200.
C7_CollectFee ==
  [][ /\ last' = Response(400, "Invalid lead ID") => leads' = leads
      /\ \A h2 \in HandlersAfter :
           (Entered(h2) /\ h2.op = "collect-fee" /\ h2.pc = "selected")
             => /\ SelectedFromTable(h2)
                /\ h2.adminId \in Operators
                /\ leads' = leads
      /\ \A h \in FeeHandlers("collect-fee") :
           /\ (Stepped(h) /\ h.pc = "selected")
                => IF h.lead = NoLead
                   THEN last'.status = 404 /\ leads' = leads
                   ELSE IF h.lead.feeCollected \/ h.lead.successFeeCents = 0
                   THEN last'.status = 400 /\ leads' = leads
                   ELSE /\ last' = NoResponse
                        /\ Entered([h EXCEPT !.pc = "updated"])
                        /\ leads'[h.leadId].feeCollected
                        /\ leads'[h.leadId].feeCollectedAt = now
                        /\ leads'[h.leadId].feeCollectedBy = h.adminId
                        /\ \A c \in NonCollectionColumns(leads[h.leadId]) :
                             leads'[h.leadId][c] = leads[h.leadId][c]
                        /\ OthersUnchanged(h.leadId)
           /\ (Stepped(h) /\ h.pc = "updated")
                => last'.status = 200 /\ leads' = leads
    ]_vars

\* a second collect-fee on a lead collected by an operator was refused
C7_Witness ==
  /\ last = Response(400, "Fee already collected")
  /\ reqs = EmptyBag
  /\ \E i \in DOMAIN leads :
       /\ leads[i].feeCollected
       /\ leads[i].feeCollectedBy \in Operators
       /\ leads[i].feeCollectedAt = now
       /\ leads[i].successFeeCents = SUCCESS_FEE_CENTS

\* C8: an uncollect-fee request on a lead that is selected as not collected
\* is answered 400 and changes nothing; on a lead selected as collected its
\* update sets feeCollected = false, clears feeCollectedAt and feeCollectedBy
\* and changes nothing else, successFeeCents included, and the request is
\* answered 200.  A lead that is not collected has feeCollectedAt and
\* feeCollectedBy empty, so that, a collect-fee changing those three columns
\* only, the uncollect-fee that follows it gives back the row as it was
\* before the collect.
C8_UncollectFee ==
  /\ [](\A i \in DOMAIN leads :
          ~leads[i].feeCollected
            => leads[i].feeCollectedAt = NullTime /\ leads[i].feeCollectedBy = NullStr)
  /\ [][ /\ \A h2 \in HandlersAfter :
              (Entered(h2) /\ h2.op = "uncollect-fee" /\ h2.pc = "selected")
                => SelectedFromTable(h2) /\ leads' = leads
         /\ \A h \in FeeHandlers("uncollect-fee") :
              /\ (Stepped(h) /\ h.pc = "selected")
                   => IF h.lead = NoLead
                      THEN last'.status = 404 /\ leads' = leads
                      ELSE IF ~h.lead.feeCollected
                      THEN last'.status = 400 /\ leads' = leads
                      ELSE /\ last' = NoResponse
                           /\ Entered([h EXCEPT !.pc = "updated"])
                           /\ ~leads'[h.leadId].feeCollected
                           /\ leads'[h.leadId].feeCollectedAt = NullTime
                           /\ leads'[h.leadId].feeCollectedBy = NullStr
                           /\ \A c \in NonCollectionColumns(leads[h.leadId]) :
                                leads'[h.leadId][c] = leads[h.leadId][c]
                           /\ OthersUnchanged(h.leadId)
              /\ (Stepped(h) /\ h.pc = "updated")
                   => last'.status = 200 /\ leads' = leads
         /\ \A h \in FeeHandlers("collect-fee") :
              (Stepped(h) /\ h.pc = "selected" /\ leads' # leads
               /\ ~leads[h.leadId].feeCollected)
                => [leads' EXCEPT ![h.leadId].feeCollected = FALSE,
                                  ![h.leadId].feeCollectedAt = NullTime,
                                  ![h.leadId].feeCollectedBy = NullStr] = leads
       ]_vars

\* a collection was reversed: the fee is still assigned, the collection fields
\* are cleared
C8_Witness ==
  /\ last = Response(200, "Fee collection reversed")
  /\ reqs = EmptyBag
  /\ \E i \in DOMAIN leads :
       /\ ~leads[i].feeCollected
       /\ leads[i].feeCollectedAt = NullTime
       /\ leads[i].feeCollectedBy = NullStr
       /\ leads[i].successFeeCents = SUCCESS_FEE_CENTS

\* the leads an event may close: same email as the handler's (lower-cased)
\* event email and not yet scheduled
Candidates(ev) ==
  {i \in DOMAIN leads : leads[i].email = EmailOf(ev) /\ ~leads[i].scheduledCall}

\* C9: the match query of a delivery whose invitee reference the lookup did
\* not find returns, of the leads that have the event's email and are
\* unscheduled, one with the latest creation time, and nothing when there is
\* no such lead; the delivery modifies the lead the query returned and no
\* other lead, and adds none.
C9_LatestUnscheduledMatch ==
  [][ \A h \in WebhookHandlers :
        /\ (Stepped(h) /\ h.pc = "lookedUp" /\ h.lead = NoLead)
             => /\ leads' = leads
                /\ IF Candidates(h.ev) = {}
                   THEN Entered([h EXCEPT !.pc = "matched"])
                   ELSE \E m \in Candidates(h.ev) :
                          /\ \A j \in Candidates(h.ev) :
                               leads[j].createdAt <= leads[m].createdAt
                          /\ \E h2 \in HandlersAfter :
                               Entered(h2) /\ h2.pc = "matched" /\ h2.ev = h.ev
                               /\ h2.lead.id = m
        /\ (Stepped(h) /\ h.pc = "matched")
             => IF h.lead = NoLead THEN leads' = leads
                ELSE Changed \subseteq {h.lead.id} /\ OthersUnchanged(h.lead.id)
        /\ (Stepped(h) /\ h.pc \notin {"lookedUp", "matched"}) => leads' = leads
    ]_vars

\* a booking closed the newer of two unscheduled leads with the same email
C9_Witness ==
  \E h \in WebhookHandlers :
    /\ h.pc = "updated"
    /\ leads[h.lead.id].calendlyInviteeUri = h.ev.uri
    /\ \E j \in DOMAIN leads :
         /\ j # h.lead.id
         /\ leads[j].email = leads[h.lead.id].email
         /\ ~leads[j].scheduledCall
         /\ leads[j].createdAt < leads[h.lead.id].createdAt

\* C10: the update of a delivery whose match query returned a lead leaves
\* that lead with scheduledCall = true, the event's event and invitee
\* references, scheduledAt = the event's start time, and successFeeCents =
\* the configured fee if it is high-intent and 0 if it is not; the booking
\* notification is then sent and the delivery answered 200.
C10_CloseTheLoop ==
  [][ \A h \in WebhookHandlers :
        /\ (Stepped(h) /\ h.pc = "matched" /\ h.lead # NoLead)
             => LET m == h.lead.id
                IN /\ leads'[m].scheduledCall
                   /\ leads'[m].calendlyEventUri = h.ev.scheduledEvent
                   /\ leads'[m].calendlyInviteeUri = h.ev.uri
                   /\ leads'[m].scheduledAt = NewDate(h.ev.start_time)
                   /\ leads'[m].scheduledAt # NullTime
                   /\ leads'[m].successFeeCents =
                        IF leads[m].isHighIntent THEN SUCCESS_FEE_CENTS ELSE 0
                   /\ Entered([h EXCEPT !.pc = "updated"])
        /\ (Stepped(h) /\ h.pc = "updated")
             => slack'.booked = slack.booked + 1 /\ Entered([h EXCEPT !.pc = "awaitSlack"])
        /\ (Stepped(h) /\ h.pc = "awaitSlack")
             => last' = Response(200, "received")
    ]_vars

\* a high-intent lead was closed by a booking and carries the default fee,
\* and the delivery was answered
C10_Witness ==
  /\ last = Response(200, "received")
  /\ reqs = EmptyBag
  /\ slack.booked = 1
  /\ \E i \in DOMAIN leads :
       /\ leads[i].isHighIntent
       /\ leads[i].scheduledCall
       /\ leads[i].calendlyInviteeUri = "inv2"
       /\ leads[i].calendlyEventUri = "evt2"
       /\ leads[i].scheduledAt = 2000
       /\ leads[i].successFeeCents = 10000

\* the step is the arrival of a webhook delivery: no handler in flight takes
\* a step and no handler of another kind of request starts
WebhookArrival ==
  /\ \A h \in Handlers : ~Stepped(h)
  /\ \A h2 \in HandlersAfter : Entered(h2) => h2.op = "webhook"

\* C11: a delivery that is not an invitee.created event is answered 200 at
\* once, and an invitee.created delivery whose match query finds no
\* unscheduled lead with the event's email (cold booking) is answered 200;
\* neither adds a lead, modifies a lead or sends a notification.
C11_ColdOrOtherEventNoOp ==
  [][ /\ (input.event # "invitee.created" /\ WebhookArrival)
           => /\ last' = Response(200, "received")
              /\ reqs' = reqs
              /\ leads' = leads
              /\ slack' = slack
      /\ \A h \in WebhookHandlers :
           /\ (Stepped(h) /\ h.pc = "lookedUp" /\ h.lead = NoLead
               /\ Candidates(h.ev) = {})
                => Entered([h EXCEPT !.pc = "matched"]) /\ leads' = leads
           /\ (Stepped(h) /\ h.pc = "matched" /\ h.lead = NoLead)
                => /\ last' = Response(200, "received")
                   /\ leads' = leads
                   /\ slack' = slack
                   /\ \A h2 \in HandlersAfter : ~Entered(h2)
    ]_vars

\* a booking for an email that no lead has was acknowledged while a lead of
\* another visitor was waiting, and nothing was scheduled or notified
C11_Witness ==
  /\ input.event = "invitee.created" /\ input.email = "b@x.com"
  /\ last = Response(200, "received")
  /\ reqs = EmptyBag
  /\ slack.booked = 0
  /\ leads # NoRows
  /\ \A i \in DOMAIN leads : ~leads[i].scheduledCall /\ leads[i].calendlyInviteeUri = NullStr

\* the columns fixed at creation
CreationColumns ==
  {"utmSource", "utmMedium", "utmCampaign", "referrer", "createdAt", "isHighIntent"}

\* C20: no step of a webhook delivery, a collect-fee request or an
\* uncollect-fee request (nor any other step) changes utmSource, utmMedium,
\* utmCampaign, referrer, createdAt or isHighIntent of an existing lead.
C20_CreationColumnsFrozen ==
  [][ \A i \in DOMAIN leads :
        /\ i \in DOMAIN leads'
        /\ \A c \in CreationColumns : leads'[i][c] = leads[i][c] ]_vars

\* a lead created with attribution was scheduled by a booking, collected and
\* uncollected, and still carries its attribution and creation time
C20_Witness ==
  /\ last = Response(200, "Fee collection reversed")
  /\ \E i \in DOMAIN leads :
       /\ leads[i].scheduledCall
       /\ leads[i].utmSource = "linkedin"
       /\ leads[i].referrer = "https://ref.example"
       /\ leads[i].isHighIntent
       /\ leads[i].createdAt < leads[i].scheduledAt
       /\ ~leads[i].feeCollected

\* the header has a t part with a value and a v1 part whose value is the
\* digest of "t.body" under the key
WellSigned(header, key, body) ==
  \E i, j \in DOMAIN header :
    /\ header[i][1] = "t" /\ Len(header[i]) >= 2 /\ header[i][2] # ""
    /\ header[j][1] = "v1" /\ Len(header[j]) >= 2
    /\ header[j][2] = HmacSha256Hex(key, header[i][2] \o "." \o body)

\* C12: with a signing key configured, a delivery whose signature header is
\* missing, has no t or no v1 part, or whose v1 is not the HMAC-SHA256 of
\* t + "." + rawBody under the key is answered 403, starts no processing and
\* changes no lead; in every other case, and for every header when no key is
\* configured, the delivery is not answered 403 and reaches event processing
\* (another event is acknowledged, a booking goes to the idempotency lookup).
C12_SignatureGate ==
  [][ WebhookArrival
      => IF input.key = "k1" /\ ~WellSigned(input.header, input.key, RawBodyOf(input.ev))
         THEN /\ last' = Response(403, "Invalid signature")
              /\ reqs' = reqs
              /\ leads' = leads
              /\ slack' = slack
         ELSE /\ last'.status # 403
              /\ leads' = leads
              /\ IF input.ev.event # "invitee.created"
                 THEN last' = Response(200, "received") /\ reqs' = reqs
                 ELSE \E h2 \in HandlersAfter :
                        Entered(h2) /\ h2.pc = "lookedUp" /\ h2.ev = input.ev ]_vars

\* a booking signed under another key was refused while an unscheduled lead
\* with its email was waiting
C12_Witness ==
  /\ last = Response(403, "Invalid signature")
  /\ input.key = "k1"
  /\ input.ev.event = "invitee.created"
  /\ input.header = << <<"t", "1700">>,
                       <<"v1", HmacSha256Hex("k2", "1700" \o "." \o RawBodyOf(input.ev))>> >>
  /\ \E i \in DOMAIN leads : leads[i].email = EmailOf(input.ev) /\ ~leads[i].scheduledCall

\* C27: in every step the leads that exist keep existing with their ids (no
\* lead is deleted, ids are only added), and a lead whose scheduledCall is
\* true keeps scheduledCall = true.
C27_NoDeleteScheduledMonotone ==
  [][ \A i \in DOMAIN leads :
        /\ i \in DOMAIN leads'
        /\ leads'[i].id = leads[i].id
        /\ leads[i].scheduledCall => leads'[i].scheduledCall ]_vars

\* a scheduled lead went through a collection and its reversal and is still
\* scheduled, and a lead was added after an insert that was refused (its id
\* is not the next one)
C27_Witness ==
  /\ DOMAIN leads = {1, 3}
  /\ last = Response(200, "Fee collection reversed")
  /\ leads[1].scheduledCall
  /\ leads[1].calendlyInviteeUri # NullStr
  /\ leads[1].successFeeCents = SUCCESS_FEE_CENTS

\* C28: a webhook delivery modifies only leads whose stored email is exactly
\* the event's email in lower case; an invitee.created event whose email is
\* absent or empty is answered 400 at once, before any lookup, and changes no
\* lead; a lead stored with the empty email is never scheduled.
C28_ExactLowerCaseMatch ==
  /\ [][ /\ (input.event = "invitee.created" /\ input.email \in {Undef, ""}
             /\ WebhookArrival)
              => /\ last' = Response(400, "Missing email in payload")
                 /\ reqs' = reqs
                 /\ leads' = leads
                 /\ slack' = slack
         /\ \A h \in WebhookHandlers :
              Stepped(h)
                => /\ h.ev.email \notin {Undef, ""}
                   /\ \A i \in Changed :
                        leads[i].email =
                          (IF h.ev.email = "A@X.COM" THEN "a@x.com" ELSE h.ev.email)
       ]_vars
  /\ [](\A i \in DOMAIN leads : leads[i].email = "" => ~leads[i].scheduledCall)

\* a booking sent with the upper-case address scheduled the lead stored with
\* the lower-case address and left the lead stored with the upper-case
\* address unscheduled
C28_Witness ==
  /\ input.email = "A@X.COM"
  /\ reqs = EmptyBag
  /\ \E i \in DOMAIN leads : leads[i].email = "a@x.com" /\ leads[i].scheduledCall
  /\ \E i \in DOMAIN leads : leads[i].email = "A@X.COM" /\ ~leads[i].scheduledCall
\* the handlers of chat turns
ChatHandlers == {h \in Handlers : h.op = "chat"}

\* chat turn h takes a step from position pc and goes on as h2
TurnStep(h, pc, h2) == Stepped(h) /\ h.pc = pc /\ Entered(h2) /\ h2.op = "chat"

\* the functionCalls entry the step to h2 adds
ToolDone(h2) == h2.functionCalls[Len(h2.functionCalls)]

\* the step to h2 completes one iteration of the tool_calls loop of h
ToolStep(h, h2) ==
  /\ Len(h2.functionCalls) = Len(h.functionCalls) + 1
  /\ ToolDone(h2).name = ChatCall(h).name
  /\ ToolDone(h2).arguments = ChatCall(h).args
  /\ h2.pc \in {"tools", "followUp"}

\* the pain point a tool call gives
PainPointOf(name, args) ==
  IF name = "qualify_lead" THEN args.painPoint ELSE args.primary_pain_point

\* the string the catch branch of a tool returns
SoftResult(call) ==
  IF call.name = "qualify_lead" THEN "soft-noted"
  ELSE "soft:" \o (IF call.args.lead_type = "venture_studio"
                      \/ call.args.intent_type = "venture_studio"
                   THEN CALENDLY_VENTURE_URL ELSE CALENDLY_URL)

\* C13 as stated: a tool call named neither qualify_and_schedule nor
\* qualify_lead returns the fallback string whatever its arguments are: the
\* iteration of the loop is completed with that result, no lead is created,
\* no notification is started and no exception ends the turn.
C13_AnyArguments ==
  [][ \A h \in ChatHandlers :
        (Stepped(h) /\ h.pc = "tools" /\ ChatCall(h).name \notin KnownTools)
          => /\ \E h2 \in HandlersAfter :
                  /\ TurnStep(h, "tools", h2)
                  /\ ToolStep(h, h2)
                  /\ ToolDone(h2).result = FALLBACK
             /\ leads' = leads
             /\ leads_id_seq' = leads_id_seq
             /\ slack' = slack
             /\ last' = NoResponse ]_vars

\* C13 (amended): a tool call named neither qualify_and_schedule nor
\* qualify_lead whose arguments are JSON text returns the fallback string
\* whatever they parse to, executes no insert (no lead, no id drawn), starts
\* no notification, and the turn goes on without an error response; a tool
\* call whose arguments are not JSON text is not dispatched, whatever its
\* name: the turn ends with 500, and the call creates no lead and starts no
\* notification.
C13_UnknownToolFallback ==
  [][ \A h \in ChatHandlers :
        /\ (Stepped(h) /\ h.pc = "tools" /\ ChatCall(h).json
            /\ ChatCall(h).name \notin KnownTools)
             => /\ \E h2 \in HandlersAfter :
                     /\ TurnStep(h, "tools", h2)
                     /\ ToolStep(h, h2)
                     /\ ToolDone(h2).result = "I'm not sure how to handle that request."
                /\ leads' = leads
                /\ leads_id_seq' = leads_id_seq
                /\ slack' = slack
                /\ last' = NoResponse
        /\ (Stepped(h) /\ h.pc = "tools" /\ ~ChatCall(h).json)
             => /\ \A h2 \in HandlersAfter : ~Entered(h2)
                /\ last' = Response(500, "Failed to process chat")
                /\ leads' = leads
                /\ leads_id_seq' = leads_id_seq
                /\ slack' = slack ]_vars

\* an unknown tool was answered with the fallback and the next call of the
\* same turn stored the only lead
C13_Witness ==
  \E h \in ChatHandlers :
    /\ Len(h.functionCalls) = 2
    /\ h.functionCalls[1].name = "get_weather"
    /\ h.functionCalls[1].arguments.primary_pain_point = "lead triage"
    /\ h.functionCalls[1].result = FALLBACK
    /\ h.functionCalls[2].result = "noted"
    /\ DOMAIN leads = {1} /\ slack.lead = 0

\* the strings the catch branches of the tools return
SoftResults == {"soft-noted", "soft:" \o CALENDLY_URL, "soft:" \o CALENDLY_VENTURE_URL}

\* a tool call of turn h returned the string of a catch branch
HadSoftResult(h) ==
  \E k \in DOMAIN h.functionCalls : h.functionCalls[k].result \in SoftResults

ChatArrival ==
  /\ \A h \in Handlers : ~Stepped(h)
  /\ \A h2 \in HandlersAfter : Entered(h2) => h2.op = "chat"
  /\ <<chat, last, reqs>>' # <<chat, last, reqs>>

\* C15: a chat request whose content is not a string, is empty or is longer
\* than 4000 characters is answered 400, appends nothing to the conversation
\* log, starts no turn (so that no completion is requested) and creates no
\* lead; any other content is not refused: its turn starts and its message is
\* stored unless the storage refuses it.
C15_InvalidContentRejected ==
  [][ ChatArrival
      => IF chat'.content.type # "string" \/ chat'.content.len = 0
            \/ chat'.content.len > 4000
         THEN /\ last'.status = 400
              /\ chat'.log = chat.log
              /\ reqs' = reqs
              /\ leads' = leads /\ slack' = slack
         ELSE /\ \E h2 \in HandlersAfter :
                   /\ Entered(h2) /\ h2.pc = "stored" /\ h2.sent = <<>>
                   /\ IF h2.failed THEN chat'.log = chat.log
                      ELSE chat'.log = Append(chat.log, [role |-> "user",
                                                         content |-> "user text"])
              /\ last' = NoResponse
              /\ leads' = leads /\ slack' = slack ]_vars

\* a request of 4001 characters was refused in a conversation that already
\* has messages
C15_Witness ==
  /\ last.status = 400
  /\ chat.content = [type |-> "string", len |-> 4001]
  /\ reqs = EmptyBag
  /\ Len(chat.log) >= 2

\* C16: the steps of a chat turn that is answered 200 were, in this order:
\* the user message appended to the log; one completion requested with the
\* system prompt and the whole log as read; if and only if it returned tool
\* calls, every tool call executed in order, each followed by its
\* tool-result turn in the history, and then one follow-up completion
\* requested with that history; the reply appended to the log exactly when
\* it is non-empty; then the response carrying the reply.
C16_TurnOrder ==
  /\ [][ \A h \in ChatHandlers : \A h2 \in HandlersAfter :
           /\ TurnStep(h, "stored", h2)
                => h2.history = <<[role |-> "system", content |-> "SYSTEM_PROMPT"]>>
                                  \o chat.log
           /\ (TurnStep(h, "llm", h2) \/ TurnStep(h, "followUp", h2))
                => h2.sent = Append(h.sent, h.history)
           /\ (TurnStep(h, "append", h2) /\ ~h2.failed)
                => chat'.log = Append(chat.log, [role |-> "assistant",
                                                 content |-> h.responseText]) ]_vars
  /\ [][ \A h \in ChatHandlers :
           (Stepped(h) /\ last'.status = 200)
             => LET n == Len(h.toolCalls)
                    first == h.sent[1]
                    m == Len(first)
                IN /\ last' = Response(200, h.responseText)
                   /\ h.trace = <<"log-user", "llm">>
                                  \o [i \in 1 .. n |-> "tool"]
                                  \o (IF n > 0 THEN <<"llm">> ELSE <<>>)
                                  \o (IF h.responseText # "" THEN <<"log-assistant">>
                                      ELSE <<>>)
                   /\ Len(h.sent) = IF n > 0 THEN 2 ELSE 1
                   /\ first[1] = [role |-> "system", content |-> "SYSTEM_PROMPT"]
                   /\ Len(h.functionCalls) = n
                   /\ n > 0 =>
                        /\ Len(h.sent[2]) = m + 2 * n
                        /\ SubSeq(h.sent[2], 1, m) = first
                        /\ \A i \in 1 .. n :
                             /\ h.functionCalls[i].name = h.toolCalls[i].name
                             /\ h.functionCalls[i].arguments = h.toolCalls[i].args
                             /\ h.sent[2][m + 2 * i - 1] =
                                  [role |-> "assistant", content |-> h.toolCalls[i].name]
                             /\ h.sent[2][m + 2 * i] =
                                  [role |-> "tool", content |-> h.functionCalls[i].result]
                   /\ chat'.log = chat.log ]_vars

\* C17 as stated: a qualify_and_schedule or qualify_lead tool call of a chat
\* turn has created a lead exactly when its persistence succeeded, that is,
\* when storage.createLead returned and the tool answered with its normal
\* string.
C17_LeadIffPersisted ==
  [][ \A h \in ChatHandlers : \A h2 \in HandlersAfter :
        TurnStep(h, "toolReturn", h2)
          => (h.lead # NoLead <=> ToolDone(h2).result # SoftResult(ChatCall(h))) ]_vars

\* C17 (amended): in a chat turn, the step of a qualify_and_schedule or
\* qualify_lead tool call in which the database applies the insert adds
\* exactly one lead, which starts with scheduledCall = false,
\* successFeeCents = 0 and feeCollected = false; every other step (a
\* completion without tool calls, a call without a pain point, an unknown
\* tool, a call whose arguments are not JSON text) leaves the leads table as
\* it is.  Every call whose persistence succeeds (createLead returns) has
\* added its lead; a call whose createLead throws has added none, unless the
\* insert was applied and its answer lost.
C17_OneLeadPerStoredCall ==
  /\ [][ IF \E h \in ChatHandlers : \E h2 \in HandlersAfter :
              TurnStep(h, "tools", h2) /\ h2.lead # NoLead
         THEN \A h \in ChatHandlers : \A h2 \in HandlersAfter :
                (TurnStep(h, "tools", h2) /\ h2.lead # NoLead)
                  => /\ ChatCall(h).name \in KnownTools
                     /\ PainPointOf(ChatCall(h).name, ChatCall(h).args) # Undef
                     /\ h2.lead.id = leads_id_seq'
                     /\ DOMAIN leads' = DOMAIN leads \cup {h2.lead.id}
                     /\ h2.lead.id \notin DOMAIN leads
                     /\ \A i \in DOMAIN leads : leads'[i] = leads[i]
                     /\ leads'[h2.lead.id].id = h2.lead.id
                     /\ leads'[h2.lead.id].painPoint
                          = PainPointOf(ChatCall(h).name, ChatCall(h).args)
                     /\ ~leads'[h2.lead.id].scheduledCall
                     /\ leads'[h2.lead.id].successFeeCents = 0
                     /\ ~leads'[h2.lead.id].feeCollected
         ELSE leads' = leads ]_vars
  /\ [][ \A h \in ChatHandlers : \A h2 \in HandlersAfter :
           TurnStep(h, "toolReturn", h2)
             => /\ ToolDone(h2).result # SoftResult(ChatCall(h))
                     => (h.lead # NoLead /\ h.lead.id \in DOMAIN leads)
                /\ h.lead = NoLead
                     => ToolDone(h2).result = SoftResult(ChatCall(h)) ]_vars

\* the answer of the insert of a qualify_lead call was lost: createLead
\* threw and the call returned the soft string, and its lead is the one row
\* of the table, with the defaults of a new lead
C17_Witness ==
  /\ \E h \in ChatHandlers :
       /\ h.pc = "tools"
       /\ Len(h.functionCalls) = 1
       /\ h.functionCalls[1].name = "qualify_lead"
       /\ h.functionCalls[1].result = "soft-noted"
  /\ DOMAIN leads = {1}
  /\ leads_id_seq = 1
  /\ leads[1].painPoint = "support"
  /\ ~leads[1].scheduledCall /\ leads[1].successFeeCents = 0 /\ ~leads[1].feeCollected
  /\ slack.lead = 0

\* the tool calls of turn h that returned the row they stored, in order
StoredCalls(h) ==
  SelectSeq(h.functionCalls,
            LAMBDA d : d.name \in KnownTools /\ d.result \in {"noted", CALENDLY_URL,
                                                               CALENDLY_VENTURE_URL})

\* C29: a chat turn that ends because a completion failed ends with 500 and
\* undoes nothing: the step leaves the conversation log as it is, the turn
\* has stored its user message and no assistant message, and, when it is the
\* follow-up completion that failed, the table is left as the turn's tool
\* calls made it, a lead for each call that stored one; no step of a turn
\* removes or changes a lead.
C29_TurnNotAtomic ==
  /\ [][ \A h \in ChatHandlers :
           (Stepped(h) /\ h.pc \in {"llm", "followUp"} /\ last' # NoResponse)
             => /\ last' = Response(500, "Failed to process chat")
                /\ \A h2 \in HandlersAfter : ~Entered(h2)
                /\ chat'.log = chat.log
                /\ h.trace[1] = "log-user"
                /\ \A k \in DOMAIN h.trace : h.trace[k] # "log-assistant"
                /\ leads' = leads /\ slack' = slack
                /\ Rows(leads') >= Len(StoredCalls(h))
                /\ \A k \in 1 .. Len(StoredCalls(h)) :
                     \E i \in DOMAIN leads' :
                       leads'[i].painPoint =
                         PainPointOf(StoredCalls(h)[k].name, StoredCalls(h)[k].arguments)
         ]_vars
  /\ [][ \A i \in DOMAIN leads : i \in DOMAIN leads' /\ leads'[i] = leads[i] ]_vars

\* the follow-up completion of a turn failed after its tool call stored a
\* lead, and the first completion of the next turn failed: two 500 responses,
\* two user messages in the log and no assistant message, the lead stored
C29_Witness ==
  /\ last = Response(500, "Failed to process chat")
  /\ reqs = EmptyBag /\ chat.turns = 2
  /\ Len(chat.log) = 2
  /\ chat.log[1].role = "user" /\ chat.log[2].role = "user"
  /\ DOMAIN leads = {1} /\ slack.lead = 1

\* C18: deliveries sent one after the other, some failing at a storage call
\* and answered 500.  The 500 itself changes no lead and sends no
\* notification, so a failed delivery leaves the table as it was or, when the
\* update had been applied, as a successful delivery leaves it.  The lookup
\* of the redelivery returns a lead exactly when a lead holds the invitee
\* reference, and the redelivery is then answered 200 and changes nothing;
\* otherwise it is handled as a first delivery, whose update finds the lead
\* unscheduled, without reference and without fee.  So no two leads hold the
\* same invitee reference, and a fee, once assigned, is never assigned again.
C18_RetryAfterFailure ==
  /\ [](\A i, j \in DOMAIN leads :
          (i # j /\ leads[i].calendlyInviteeUri # NullStr)
            => leads[i].calendlyInviteeUri # leads[j].calendlyInviteeUri)
  /\ [][ /\ \A h2 \in HandlersAfter :
              (Entered(h2) /\ h2.op = "webhook" /\ h2.pc = "lookedUp")
                => (h2.lead # NoLead
                      <=> \E i \in DOMAIN leads : leads[i].calendlyInviteeUri = h2.ev.uri)
         /\ \A h \in WebhookHandlers :
              /\ (Stepped(h) /\ last'.status = 500)
                   => /\ h.pc \in {"lookedUp", "matched", "updated"}
                      /\ leads' = leads
                      /\ slack' = slack
                      /\ \A h2 \in HandlersAfter : ~Entered(h2)
              /\ (Stepped(h) /\ last'.status # 500 /\ h.pc = "lookedUp" /\ h.lead # NoLead)
                   => /\ last' = Response(200, "Event already processed")
                      /\ leads' = leads
                      /\ slack' = slack
              /\ (Stepped(h) /\ last'.status # 500 /\ h.pc = "matched" /\ h.lead # NoLead)
                   => LET m == h.lead.id
                      IN /\ ~leads[m].scheduledCall
                         /\ leads[m].calendlyInviteeUri = NullStr
                         /\ leads[m].successFeeCents = 0
                         /\ leads'[m].scheduledCall
                         /\ leads'[m].calendlyInviteeUri = h.ev.uri
                         /\ OthersUnchanged(m)
       ]_vars
  /\ [][ \A i \in DOMAIN leads :
            leads[i].successFeeCents # 0
              => leads'[i].successFeeCents = leads[i].successFeeCents ]_vars

\* a delivery failed after the database had applied the update (the lead is
\* scheduled with the fee, no booking notification was sent), its redelivery
\* was recognised as processed, and the other unscheduled lead with the same
\* email was left alone
C18_Witness ==
  /\ last = Response(200, "Event already processed")
  /\ slack.booked = 0
  /\ \E i \in DOMAIN leads :
       /\ leads[i].calendlyInviteeUri # NullStr
       /\ leads[i].successFeeCents = SUCCESS_FEE_CENTS
       /\ \E j \in DOMAIN leads :
            j # i /\ leads[j].email = leads[i].email /\ ~leads[j].scheduledCall

\* C19: a request that has started a notification does not wait for it: no
\* handler is suspended on the Slack post it started (the response is
\* produced whether the post is answered, fails or never settles), and the
\* lead a notification announces is in the table, scheduled when it is a
\* booking, before the notification is started.
C19_NotifyNeverBlocks ==
  \A h \in Handlers :
    /\ h.pc # "awaitSlack"
    /\ (h.pc = "updated" /\ h.op = "webhook") => leads[h.lead.id].scheduledCall
    /\ (h.pc = "inserted" /\ h.op = "qualify_and_schedule" /\ h.lead # NoLead)
         => h.lead.id \in DOMAIN leads

\* C25: once a lead's calendlyInviteeUri is set, no step changes that lead's
\* calendlyInviteeUri, calendlyEventUri or scheduledAt, whichever way the
\* storage calls of concurrent deliveries interleave.
C25_ClosedByOneBooking ==
  [][ \A i \in DOMAIN leads :
        leads[i].calendlyInviteeUri # NullStr
          => /\ leads'[i].calendlyInviteeUri = leads[i].calendlyInviteeUri
             /\ leads'[i].calendlyEventUri = leads[i].calendlyEventUri
             /\ leads'[i].scheduledAt = leads[i].scheduledAt ]_vars

\* C26: the update of a collect-fee request, after which the request is
\* answered with success, runs only on a lead that is not yet collected, so
\* of two concurrent requests for one eligible lead one succeeds and the
\* other is refused.
C26_OneCollectionWins ==
  [][ \A h \in FeeHandlers("collect-fee") :
        (Stepped(h) /\ h.pc = "selected" /\ Entered([h EXCEPT !.pc = "updated"]))
          => ~leads[h.leadId].feeCollected ]_vars

\* the intent type of a qualify_and_schedule call, read off its arguments
SelectedIntent(a) ==
  IF a.intent_type # Undef /\ a.intent_type # "" THEN a.intent_type
  ELSE IF a.lead_type # Undef /\ a.lead_type # "" THEN a.lead_type
  ELSE "business_upgrade"

\* the scheduling link of an intent type
LinkOfIntent(it) == IF it = "venture_studio" THEN CALENDLY_VENTURE_URL ELSE CALENDLY_URL

\* the handlers of tool calls
ToolHandlers == {h \in Handlers : h.op \in KnownTools}

\* C23: the string qualify_and_schedule returns carries the venture link
\* exactly when the intent type (intent_type, else lead_type, else
\* business_upgrade) is venture_studio and the business link otherwise, also
\* when the lead could not be stored or createLead rejected after storing it;
\* a stored lead's leadType is that intent type.
C23_LinkByIntentType ==
  [][ /\ \A h2 \in HandlersAfter :
           (Entered(h2) /\ h2.op = "qualify_and_schedule")
             => /\ h2.call = input
                /\ IF h2.lead = NoLead THEN leads' = leads
                   ELSE /\ h2.lead.id \in DOMAIN leads' \ DOMAIN leads
                        /\ leads'[h2.lead.id].leadType = SelectedIntent(input.args)
      /\ \A h \in ToolHandlers :
           (Stepped(h) /\ h.op = "qualify_and_schedule")
             => LET link == LinkOfIntent(SelectedIntent(h.call.args))
                IN /\ last'.status = 0
                   /\ last'.body \in {link, "soft:" \o link}
                   /\ h.lead = NoLead => last'.body = "soft:" \o link
    ]_vars

\* a call with an empty intent_type and the legacy lead_type venture_studio
\* whose createLead threw still returned the venture link, after the same
\* call had stored a lead of type venture_studio
C23_Witness ==
  /\ input.name = "qualify_and_schedule"
  /\ input.args.intent_type = "" /\ input.args.lead_type = "venture_studio"
  /\ last = Response(0, "soft:" \o CALENDLY_VENTURE_URL)
  /\ \E i \in DOMAIN leads : leads[i].leadType = "venture_studio"

\* C24: every stored lead has a pain point; a tool call whose pain point is
\* absent creates no lead; a call that gives only a pain point, storage
\* working, creates a lead named "Anonymous" at company "Unknown" with the
\* empty email.
C24_PainPointRequired ==
  /\ [](\A i \in DOMAIN leads : leads[i].painPoint \notin {Undef, NullStr})
  /\ [][ \A h2 \in HandlersAfter :
           (Entered(h2) /\ h2.op \in KnownTools)
             => LET a == input.args
                    pp == PainPointOf(input.name, a)
                    bare == IF input.name = "qualify_and_schedule"
                            THEN a.lead_name = Undef /\ a.company_name = Undef
                                 /\ a.lead_email = Undef
                            ELSE a.name = Undef /\ a.company = Undef /\ a.email = Undef
                IN /\ h2.call = input
                   /\ pp = Undef => (leads' = leads /\ h2.lead = NoLead)
                   /\ (pp # Undef /\ h2.lead = NoLead)
                        => (leads' = leads /\ leads_id_seq' = leads_id_seq)
                   /\ (pp # Undef /\ bare /\ h2.lead # NoLead)
                        => /\ DOMAIN leads' = DOMAIN leads \cup {h2.lead.id}
                           /\ h2.lead.id \notin DOMAIN leads
                           /\ leads'[h2.lead.id].painPoint = pp
                           /\ leads'[h2.lead.id].name = "Anonymous"
                           /\ leads'[h2.lead.id].company = "Unknown"
                           /\ leads'[h2.lead.id].email = ""
        ]_vars

\* a qualify_lead call that gave nothing but a pain point was stored twice
\* and answered with the soft string once
C24_Witness ==
  /\ input.name = "qualify_lead"
  /\ input.args.painPoint = "support" /\ input.args.name = Undef
  /\ last = Response(0, "soft-noted")
  /\ DOMAIN leads = {1, 2}
  /\ \A i \in DOMAIN leads :
       /\ leads[i].painPoint = "support" /\ leads[i].name = "Anonymous"
       /\ leads[i].company = "Unknown" /\ leads[i].email = ""

\* C22: the conversion rate is 0 when highIntentCount is 0 (or the sum is
\* NULL), whatever scheduledCount is; otherwise it is an integer nearest to
\* 100 * scheduledCount / highIntentCount (when that percentage lies half way
\* between two integers, one of the two).
C22_ConversionRate ==
  last = Response(200, "metrics")
    => LET h == IF input.highIntentCount = NullCount THEN 0 ELSE input.highIntentCount
           s == IF input.scheduledCount = NullCount THEN 0 ELSE input.scheduledCount
           rate == input.conversionRate
       IN /\ h = 0 => rate = 0
          /\ h > 0 => /\ 2 * h * rate - h <= 200 * s
                      /\ 200 * s <= 2 * h * rate + h

\* the rate of 23 scheduled calls against 40 high-intent leads was 57: the
\* quotient 0.575 is not a Number, the product with 100 falls below 57.5
C22_Witness ==
  /\ last = Response(200, "metrics")
  /\ input.highIntentCount = 40 /\ input.scheduledCount = 23
  /\ input.conversionRate = 57

\* the process skips authentication
Bypassing == input.nodeEnv = "development" /\ input.skipAuth = "true"

\* the configured admin list is not empty and does not hold the user
NotListed(user) ==
  /\ \E k \in DOMAIN input.adminUserId : input.adminUserId[k] # ""
  /\ \A k \in DOMAIN input.adminUserId :
       input.adminUserId[k] # user /\ input.adminUserId[k] # " " \o user

\* the step is the arrival of a request to an admin route: no handler in
\* flight takes a step and no handler of another kind of request starts
AdminArrival ==
  /\ \A h \in Handlers : ~Stepped(h)
  /\ \A h2 \in HandlersAfter : Entered(h2) => h2.op \in AdminRoutes

\* C21: a collect-fee or uncollect-fee request without an authenticated user
\* id (it is not signed in, or the process skips authentication so that
\* nothing sets req.auth) is answered 401, and one whose authenticated user is
\* not in the non-empty admin list is answered 403; in both cases the handler
\* does not run (no select is executed) and the table is unchanged.  A
\* request of a user the admin list lets through reaches the handler.
C21_AdminGate ==
  [][ AdminArrival
      => /\ (Bypassing \/ input.session = Undef)
              => /\ last'.status = 401
                 /\ reqs' = reqs /\ leads' = leads
         /\ Bypassing => last' = Response(401, "Authentication required")
         /\ (~Bypassing /\ input.session # Undef /\ NotListed(input.session))
              => /\ last' = Response(403, "Admin access required")
                 /\ reqs' = reqs /\ leads' = leads
         /\ (~Bypassing /\ input.session # Undef /\ ~NotListed(input.session))
              => \E h2 \in HandlersAfter :
                   Entered(h2) /\ h2.pc = "selected" /\ h2.adminId = input.session
    ]_vars

\* a signed-in user who is not in the admin list asked for a fee route on a
\* lead that has a fee to collect and was answered 403
C21_Witness ==
  /\ last = Response(403, "Admin access required")
  /\ input.session = "user_admin2" /\ input.adminUserId = <<"user_admin1">>
  /\ \E i \in DOMAIN leads : leads[i].successFeeCents > 0 /\ ~leads[i].feeCollected

\* C30: with NODE_ENV = development and SKIP_AUTH = true a request without
\* credentials gets through devBypassAuth and requireAdmin to the handler; in
\* every other configuration such a request is stopped by the real
\* authentication.
C30_DevBypassReachesHandler ==
  [][ (AdminArrival /\ input.session = Undef)
      => IF Bypassing
         THEN \E h2 \in HandlersAfter : Entered(h2) /\ h2.pc = "selected"
         ELSE last' = Unauthenticated /\ reqs' = reqs ]_vars
====
